---- MODULE Spec2Model ----
(***************************************************************************)
(* A model of the madNES emulator core: the 6502 interpreter of             *)
(* src/cpu/core.rs with the bus of src/cpu/memory.rs, the run loop of       *)
(* src/emulator/core.rs, the PPU of src/ppu/ppu.rs and the APU of           *)
(* src/apu/core.rs.  Bytes are 0..255, words 0..65535; arithmetic keeps its  *)
(* width explicitly.  Memories are sparse maps: an absent cell holds 0.      *)
(***************************************************************************)
EXTENDS Integers, Sequences, FiniteSets, TLC

VARIABLES
    cpu,    \* Cpu: registers, cycle and instruction counters, and its NesMemory
    emu,    \* locals of Emulator::run that outlive one iteration
    ppu,    \* Ppu
    apu,    \* Apu
    cart,   \* the cartridge: the outcome of loading a file, and the mapper made for it
    pad,    \* Controller
    audio,  \* the AudioBuffer of the audio device, None while there is no device
    last,   \* what the last call was, what it returned, and the state it started from
    hist    \* counts over the whole run: calls from outside, NMIs serviced, PPU dots,
            \* and the parity of the writes to 0x2005/0x2006 since w was last reset

vars == <<cpu, emu, ppu, apu, cart, pad, audio, last, hist>>

-----------------------------------------------------------------------------
(* Bounds of the model. *)

\* Cpu::step is not called once this many instructions have been counted.
MaxInstr == 5
\* irq(), nmi() and reset() are called this many times at most in one run.
MaxIntr == 2
\* Emulator::run does not step the CPU once this many CPU cycles have passed.
MaxCycles == 27500
\* Ppu::step is not called once this many frames have been completed.
MaxFrames == 1
\* The register specifications make this many register accesses at most.
MaxRegOps == 4

-----------------------------------------------------------------------------
(* Fixed-width arithmetic and bit operations. *)

Byte == 0..255

Wrap8(n) == n % 256

Wrap16(n) == n % 65536

\* bit k of v
get_bit(v, k) == (v \div (2 ^ k)) % 2 = 1

RECURSIVE BitAnd(_, _, _)
BitAnd(a, b, w) ==
    IF w = 0 THEN 0
    ELSE (a % 2) * (b % 2) + 2 * BitAnd(a \div 2, b \div 2, w - 1)

RECURSIVE BitOr(_, _, _)
BitOr(a, b, w) ==
    IF w = 0 THEN 0
    ELSE (IF a % 2 = 1 \/ b % 2 = 1 THEN 1 ELSE 0)
         + 2 * BitOr(a \div 2, b \div 2, w - 1)

RECURSIVE BitXor(_, _, _)
BitXor(a, b, w) ==
    IF w = 0 THEN 0
    ELSE ((a + b) % 2) + 2 * BitXor(a \div 2, b \div 2, w - 1)

\* (addr1 & 0xFF00) != (addr2 & 0xFF00)
page_crossed(addr1, addr2) == (addr1 \div 256) # (addr2 \div 256)

\* `b as i8 as u16`: the byte sign-extended to 16 bits
SignExtend(b) == IF b >= 128 THEN b + 65280 ELSE b

-----------------------------------------------------------------------------
(* Sparse maps: arrays whose cells start at 0. *)

\* Option::None
None == [some |-> FALSE]

EmptyMap == [i \in {} |-> 0]

Get(m, i) == IF i \in DOMAIN m THEN m[i] ELSE 0

Put(m, i, v) ==
    IF v = 0
    THEN [j \in (DOMAIN m) \ {i} |-> m[j]]
    ELSE [j \in (DOMAIN m) \cup {i} |-> IF j = i THEN v ELSE m[j]]

\* the map holding the bytes of seq from index base on (zero bytes left out)
Image(base, seq) ==
    LET idx == {k \in 1..Len(seq) : seq[k] # 0}
    IN  [j \in {base + k - 1 : k \in idx} |-> seq[j - base + 1]]

-----------------------------------------------------------------------------
(* NesMemory, the CPU bus. *)

NesMemory_new(rom) ==
    [internal_ram     |-> EmptyMap,
     ppu_registers    |-> EmptyMap,
     apu_io_registers |-> EmptyMap,
     rom              |-> rom,
     prg_ram          |-> EmptyMap]

read_byte(mem, address) ==
    IF address <= \h1FFF THEN Get(mem.internal_ram, address % \h0800)
    ELSE IF address <= \h3FFF THEN Get(mem.ppu_registers, address % 8)
    ELSE IF address <= \h4017 THEN Get(mem.apu_io_registers, address - \h4000)
    ELSE IF address <= \h401F THEN Get(mem.apu_io_registers, address - \h4018)
    ELSE IF address < \h6000 THEN 0
    ELSE IF address <= \h7FFF THEN Get(mem.prg_ram, address - \h6000)
    ELSE IF mem.rom = None THEN 0
    ELSE LET offset == address - \h8000
         IN  IF offset < mem.rom.len THEN Get(mem.rom.prg_rom, offset)
             ELSE IF mem.rom.len = \h4000 /\ offset >= \h4000
                  THEN Get(mem.rom.prg_rom, offset - \h4000)
                  ELSE 0

\* write_byte with the internal RAM mirrored every 4 KiB
write_byte_wide_mirror(mem, address, value) ==
    IF address <= \h1FFF
    THEN [mem EXCEPT !.internal_ram = Put(@, address % \h1000, value)]
    ELSE IF address <= \h3FFF
    THEN [mem EXCEPT !.ppu_registers = Put(@, address % 8, value)]
    ELSE IF address <= \h4017
    THEN [mem EXCEPT !.apu_io_registers = Put(@, address - \h4000, value)]
    ELSE IF address <= \h401F
    THEN [mem EXCEPT !.apu_io_registers = Put(@, address - \h4018, value)]
    ELSE IF address < \h6000 THEN mem
    ELSE IF address <= \h7FFF
    THEN [mem EXCEPT !.prg_ram = Put(@, address - \h6000, value)]
    ELSE mem

write_byte(mem, address, value) ==
    IF address <= \h1FFF
    THEN [mem EXCEPT !.internal_ram = Put(@, address % \h0800, value)]
    ELSE IF address <= \h3FFF
    THEN [mem EXCEPT !.ppu_registers = Put(@, address % 8, value)]
    ELSE IF address <= \h4017
    THEN [mem EXCEPT !.apu_io_registers = Put(@, address - \h4000, value)]
    ELSE IF address <= \h401F
    THEN [mem EXCEPT !.apu_io_registers = Put(@, address - \h4018, value)]
    ELSE IF address < \h6000 THEN mem
    ELSE IF address <= \h7FFF
    THEN [mem EXCEPT !.prg_ram = Put(@, address - \h6000, value)]
    ELSE mem

\* Memory::read_word: `address + 1` is a plain u16 addition; at 0xFFFF it
\* overflows, which panics with overflow checks on and wraps without them.
read_word(mem, address) ==
    read_byte(mem, address) + 256 * read_byte(mem, Wrap16(address + 1))

-----------------------------------------------------------------------------
(* The decode table. *)

InstructionRows == {
    <<\hA9, "LDA", "Immediate", 2, 2>>,
    <<\hA5, "LDA", "ZeroPage", 3, 2>>,
    <<\hB5, "LDA", "ZeroPageX", 4, 2>>,
    <<\hAD, "LDA", "Absolute", 4, 3>>,
    <<\hBD, "LDA", "AbsoluteX", 4, 3>>,
    <<\hB9, "LDA", "AbsoluteY", 4, 3>>,
    <<\hA1, "LDA", "IndirectX", 6, 2>>,
    <<\hB1, "LDA", "IndirectY", 5, 2>>,
    <<\hA2, "LDX", "Immediate", 2, 2>>,
    <<\hA6, "LDX", "ZeroPage", 3, 2>>,
    <<\hB6, "LDX", "ZeroPageY", 4, 2>>,
    <<\hAE, "LDX", "Absolute", 4, 3>>,
    <<\hBE, "LDX", "AbsoluteY", 4, 3>>,
    <<\hA0, "LDY", "Immediate", 2, 2>>,
    <<\hA4, "LDY", "ZeroPage", 3, 2>>,
    <<\hB4, "LDY", "ZeroPageX", 4, 2>>,
    <<\hAC, "LDY", "Absolute", 4, 3>>,
    <<\hBC, "LDY", "AbsoluteX", 4, 3>>,
    <<\h85, "STA", "ZeroPage", 3, 2>>,
    <<\h8D, "STA", "Absolute", 4, 3>>,
    <<\h9D, "STA", "AbsoluteX", 5, 3>>,
    <<\h99, "STA", "AbsoluteY", 5, 3>>,
    <<\h81, "STA", "IndirectX", 6, 2>>,
    <<\h91, "STA", "IndirectY", 6, 2>>,
    <<\h95, "STA", "ZeroPageX", 4, 2>>,
    <<\h86, "STX", "ZeroPage", 3, 2>>,
    <<\h96, "STX", "ZeroPageY", 4, 2>>,
    <<\h8E, "STX", "Absolute", 4, 3>>,
    <<\h84, "STY", "ZeroPage", 3, 2>>,
    <<\h94, "STY", "ZeroPageX", 4, 2>>,
    <<\h8C, "STY", "Absolute", 4, 3>>,
    <<\hAA, "TAX", "Implied", 2, 1>>,
    <<\hA8, "TAY", "Implied", 2, 1>>,
    <<\hBA, "TSX", "Implied", 2, 1>>,
    <<\h8A, "TXA", "Implied", 2, 1>>,
    <<\h98, "TYA", "Implied", 2, 1>>,
    <<\h9A, "TXS", "Implied", 2, 1>>,
    <<\h48, "PHA", "Implied", 3, 1>>,
    <<\h08, "PHP", "Implied", 3, 1>>,
    <<\h68, "PLA", "Implied", 4, 1>>,
    <<\h28, "PLP", "Implied", 4, 1>>,
    <<\hC6, "DEC", "ZeroPage", 5, 2>>,
    <<\hD6, "DEC", "ZeroPageX", 6, 2>>,
    <<\hCE, "DEC", "Absolute", 6, 3>>,
    <<\hDE, "DEC", "AbsoluteX", 7, 3>>,
    <<\hCA, "DEX", "Implied", 2, 1>>,
    <<\h88, "DEY", "Implied", 2, 1>>,
    <<\hE6, "INC", "ZeroPage", 5, 2>>,
    <<\hF6, "INC", "ZeroPageX", 6, 2>>,
    <<\hEE, "INC", "Absolute", 6, 3>>,
    <<\hFE, "INC", "AbsoluteX", 7, 3>>,
    <<\hE8, "INX", "Implied", 2, 1>>,
    <<\hC8, "INY", "Implied", 2, 1>>,
    <<\h69, "ADC", "Immediate", 2, 2>>,
    <<\h65, "ADC", "ZeroPage", 3, 2>>,
    <<\h75, "ADC", "ZeroPageX", 4, 2>>,
    <<\h6D, "ADC", "Absolute", 4, 3>>,
    <<\h7D, "ADC", "AbsoluteX", 4, 3>>,
    <<\h79, "ADC", "AbsoluteY", 4, 3>>,
    <<\h61, "ADC", "IndirectX", 6, 2>>,
    <<\h71, "ADC", "IndirectY", 5, 2>>,
    <<\hE9, "SBC", "Immediate", 2, 2>>,
    <<\hE5, "SBC", "ZeroPage", 3, 2>>,
    <<\hF5, "SBC", "ZeroPageX", 4, 2>>,
    <<\hED, "SBC", "Absolute", 4, 3>>,
    <<\hFD, "SBC", "AbsoluteX", 4, 3>>,
    <<\hF9, "SBC", "AbsoluteY", 4, 3>>,
    <<\hE1, "SBC", "IndirectX", 6, 2>>,
    <<\hF1, "SBC", "IndirectY", 5, 2>>,
    <<\h29, "AND", "Immediate", 2, 2>>,
    <<\h25, "AND", "ZeroPage", 3, 2>>,
    <<\h35, "AND", "ZeroPageX", 4, 2>>,
    <<\h2D, "AND", "Absolute", 4, 3>>,
    <<\h3D, "AND", "AbsoluteX", 4, 3>>,
    <<\h39, "AND", "AbsoluteY", 4, 3>>,
    <<\h21, "AND", "IndirectX", 6, 2>>,
    <<\h31, "AND", "IndirectY", 5, 2>>,
    <<\h49, "EOR", "Immediate", 2, 2>>,
    <<\h45, "EOR", "ZeroPage", 3, 2>>,
    <<\h55, "EOR", "ZeroPageX", 4, 2>>,
    <<\h4D, "EOR", "Absolute", 4, 3>>,
    <<\h5D, "EOR", "AbsoluteX", 4, 3>>,
    <<\h59, "EOR", "AbsoluteY", 4, 3>>,
    <<\h41, "EOR", "IndirectX", 6, 2>>,
    <<\h51, "EOR", "IndirectY", 5, 2>>,
    <<\h09, "ORA", "Immediate", 2, 2>>,
    <<\h05, "ORA", "ZeroPage", 3, 2>>,
    <<\h15, "ORA", "ZeroPageX", 4, 2>>,
    <<\h0D, "ORA", "Absolute", 4, 3>>,
    <<\h1D, "ORA", "AbsoluteX", 4, 3>>,
    <<\h19, "ORA", "AbsoluteY", 4, 3>>,
    <<\h01, "ORA", "IndirectX", 6, 2>>,
    <<\h11, "ORA", "IndirectY", 5, 2>>,
    <<\h0A, "ASL", "Implied", 2, 1>>,
    <<\h06, "ASL", "ZeroPage", 5, 2>>,
    <<\h16, "ASL", "ZeroPageX", 6, 2>>,
    <<\h0E, "ASL", "Absolute", 6, 3>>,
    <<\h1E, "ASL", "AbsoluteX", 7, 3>>,
    <<\h4A, "LSR", "Implied", 2, 1>>,
    <<\h46, "LSR", "ZeroPage", 5, 2>>,
    <<\h56, "LSR", "ZeroPageX", 6, 2>>,
    <<\h4E, "LSR", "Absolute", 6, 3>>,
    <<\h5E, "LSR", "AbsoluteX", 7, 3>>,
    <<\h2A, "ROL", "Implied", 2, 1>>,
    <<\h26, "ROL", "ZeroPage", 5, 2>>,
    <<\h36, "ROL", "ZeroPageX", 6, 2>>,
    <<\h2E, "ROL", "Absolute", 6, 3>>,
    <<\h3E, "ROL", "AbsoluteX", 7, 3>>,
    <<\h6A, "ROR", "Implied", 2, 1>>,
    <<\h66, "ROR", "ZeroPage", 5, 2>>,
    <<\h76, "ROR", "ZeroPageX", 6, 2>>,
    <<\h6E, "ROR", "Absolute", 6, 3>>,
    <<\h7E, "ROR", "AbsoluteX", 7, 3>>,
    <<\h18, "CLC", "Implied", 2, 1>>,
    <<\hD8, "CLD", "Implied", 2, 1>>,
    <<\h58, "CLI", "Implied", 2, 1>>,
    <<\hB8, "CLV", "Implied", 2, 1>>,
    <<\h38, "SEC", "Implied", 2, 1>>,
    <<\hF8, "SED", "Implied", 2, 1>>,
    <<\h78, "SEI", "Implied", 2, 1>>,
    <<\hC9, "CMP", "Immediate", 2, 2>>,
    <<\hC5, "CMP", "ZeroPage", 3, 2>>,
    <<\hD5, "CMP", "ZeroPageX", 4, 2>>,
    <<\hCD, "CMP", "Absolute", 4, 3>>,
    <<\hDD, "CMP", "AbsoluteX", 4, 3>>,
    <<\hD9, "CMP", "AbsoluteY", 4, 3>>,
    <<\hC1, "CMP", "IndirectX", 6, 2>>,
    <<\hD1, "CMP", "IndirectY", 5, 2>>,
    <<\hE0, "CPX", "Immediate", 2, 2>>,
    <<\hE4, "CPX", "ZeroPage", 3, 2>>,
    <<\hEC, "CPX", "Absolute", 4, 3>>,
    <<\hC0, "CPY", "Immediate", 2, 2>>,
    <<\hC4, "CPY", "ZeroPage", 3, 2>>,
    <<\hCC, "CPY", "Absolute", 4, 3>>,
    <<\h90, "BCC", "Relative", 2, 2>>,
    <<\hB0, "BCS", "Relative", 2, 2>>,
    <<\hF0, "BEQ", "Relative", 2, 2>>,
    <<\h30, "BMI", "Relative", 2, 2>>,
    <<\hD0, "BNE", "Relative", 2, 2>>,
    <<\h10, "BPL", "Relative", 2, 2>>,
    <<\h50, "BVC", "Relative", 2, 2>>,
    <<\h70, "BVS", "Relative", 2, 2>>,
    <<\h4C, "JMP", "Absolute", 3, 3>>,
    <<\h6C, "JMP", "Indirect", 5, 3>>,
    <<\h20, "JSR", "Absolute", 6, 3>>,
    <<\h60, "RTS", "Implied", 6, 1>>,
    <<\h00, "BRK", "Implied", 7, 1>>,
    <<\h40, "RTI", "Implied", 6, 1>>,
    <<\h2C, "BIT", "Absolute", 4, 3>>,
    <<\h24, "BIT", "ZeroPage", 3, 2>>,
    <<\hEA, "NOP", "Implied", 2, 1>>
}

INSTRUCTION_TABLE ==
    [op \in Byte |->
        IF \E r \in InstructionRows : r[1] = op
        THEN LET r == CHOOSE q \in InstructionRows : q[1] = op
             IN  [some |-> TRUE, opcode |-> op, mnemonic |-> r[2],
                  addressing_mode |-> r[3], cycles |-> r[4], bytes |-> r[5]]
        ELSE None]

get_instruction(opcode) == INSTRUCTION_TABLE[opcode]

-----------------------------------------------------------------------------
(* The CPU.  A Cpu value c is a record of the struct's fields plus          *)
(* `panicked`.  The operators below compute what the code computes with     *)
(* wrapping arithmetic and set `panicked` wherever a plain `+` or `+=` of   *)
(* the source overflows: a build with overflow checks panics there, a build *)
(* without them continues with the wrapped value.                           *)

StatusFlag ==
    [Carry |-> 1, Zero |-> 2, InterruptDisable |-> 4, Decimal |-> 8,
     Break |-> 16, Unused |-> 32, Overflow |-> 64, Negative |-> 128]

Cpu_new(rom) ==
    [a |-> 0, x |-> 0, y |-> 0, pc |-> 0, sp |-> \hFD, p |-> 0,
     memory |-> NesMemory_new(rom), cycles |-> 0, instruction_count |-> 0,
     panicked |-> FALSE]

get_flag(c, flag) == (c.p \div flag) % 2 = 1

set_flag(c, flag, value) ==
    IF value
    THEN (IF get_flag(c, flag) THEN c ELSE [c EXCEPT !.p = @ + flag])
    ELSE (IF get_flag(c, flag) THEN [c EXCEPT !.p = @ - flag] ELSE c)

update_nz_flags(c, value) ==
    set_flag(set_flag(c, StatusFlag.Zero, value = 0),
             StatusFlag.Negative, value >= 128)

\* a checked u16 addition of the source: the wrapped sum, and the overflow noted
Overflow(c, sum) == IF sum > 65535 THEN [c EXCEPT !.panicked = TRUE] ELSE c

\* a push that moves SP before it stores
push_stack_predecrement(c, value) ==
    LET sp == Wrap8(c.sp + 255)
    IN  [c EXCEPT !.memory = write_byte(@, \h0100 + sp, value), !.sp = sp]

push_stack(c, value) ==
    [c EXCEPT !.memory = write_byte(@, \h0100 + c.sp, value),
              !.sp = Wrap8(c.sp + 255)]

\* pull_stack: the Cpu after the pull, and the byte pulled
pull_stack(c) ==
    LET sp == Wrap8(c.sp + 1)
    IN  [c |-> [c EXCEPT !.sp = sp], value |-> read_byte(c.memory, \h0100 + sp)]

\* the status byte an interrupt pushes, Break as given, Unused set
PushedStatus(c, brk_flag) ==
    set_flag(set_flag(c, StatusFlag.Break, brk_flag), StatusFlag.Unused, TRUE).p

irq(c) ==
    IF get_flag(c, StatusFlag.InterruptDisable) THEN c
    ELSE LET c1 == push_stack(c, c.pc \div 256)
             c2 == push_stack(c1, c.pc % 256)
             c3 == push_stack(c2, PushedStatus(c, FALSE))
             c4 == set_flag(c3, StatusFlag.InterruptDisable, TRUE)
         IN  [c4 EXCEPT !.pc = read_word(c4.memory, \hFFFE)]

\* nmi() pushing the low byte of PC before the high byte
nmi_low_byte_first(c) ==
    LET c1 == push_stack(c, c.pc % 256)
        c2 == push_stack(c1, c.pc \div 256)
        c3 == push_stack(c2, PushedStatus(c, FALSE))
        c4 == set_flag(c3, StatusFlag.InterruptDisable, TRUE)
    IN  [c4 EXCEPT !.pc = read_word(c4.memory, \hFFFA)]

nmi(c) ==
    LET c1 == push_stack(c, c.pc \div 256)
        c2 == push_stack(c1, c.pc % 256)
        c3 == push_stack(c2, PushedStatus(c, FALSE))
        c4 == set_flag(c3, StatusFlag.InterruptDisable, TRUE)
    IN  [c4 EXCEPT !.pc = read_word(c4.memory, \hFFFA)]

reset(c) ==
    [c EXCEPT !.a = 0, !.x = 0, !.y = 0,
              !.pc = read_word(c.memory, \hFFFC),
              !.sp = \hFD,
              !.p = StatusFlag.InterruptDisable + StatusFlag.Unused,
              !.cycles = 0, !.instruction_count = 0]

brk(c) ==
    LET c0 == [Overflow(c, c.pc + 1) EXCEPT !.pc = Wrap16(c.pc + 1)]
        c1 == push_stack(c0, c0.pc \div 256)
        c2 == push_stack(c1, c0.pc % 256)
        c3 == push_stack(c2, PushedStatus(c0, TRUE))
        c4 == set_flag(c3, StatusFlag.InterruptDisable, TRUE)
    IN  [c4 EXCEPT !.pc = read_word(c4.memory, \hFFFE)]

get_operand_address(c, instruction) ==
    LET mode == instruction.addressing_mode
        mem  == c.memory
        b    == read_byte(mem, c.pc)
        w    == read_word(mem, c.pc)
        wovf == c.pc + 1 > 65535
        ok(addr, ovf) == [ok |-> TRUE, addr |-> addr, overflow |-> ovf]
    IN  CASE mode = "Immediate" -> ok(c.pc, FALSE)
          [] mode = "ZeroPage"  -> ok(b, FALSE)
          [] mode = "ZeroPageX" -> ok(Wrap8(b + c.x), FALSE)
          [] mode = "ZeroPageY" -> ok(Wrap8(b + c.y), FALSE)
          [] mode = "Absolute"  -> ok(w, wovf)
          [] mode = "AbsoluteX" -> ok(Wrap16(w + c.x), wovf)
          [] mode = "AbsoluteY" -> ok(Wrap16(w + c.y), wovf)
          [] mode = "IndirectX" ->
                LET ptr == Wrap8(b + c.x)
                IN  ok(read_byte(mem, ptr) + 256 * read_byte(mem, Wrap8(ptr + 1)),
                       FALSE)
          [] mode = "IndirectY" ->
                ok(Wrap16(read_byte(mem, b) + 256 * read_byte(mem, Wrap8(b + 1))
                          + c.y), FALSE)
          [] mode = "Indirect" ->
                IF w % 256 = 255
                THEN ok(read_byte(mem, w) + 256 * read_byte(mem, w - 255), wovf)
                ELSE ok(read_word(mem, w), wovf)
          [] mode = "Relative" ->
                ok(Wrap16(Wrap16(c.pc + 1) + SignExtend(b)), c.pc + 1 > 65535)
          [] mode = "Implied" -> ok(0, FALSE)
          [] OTHER -> [ok |-> FALSE, addr |-> 0, overflow |-> FALSE]

-----------------------------------------------------------------------------
(* The operations of the instructions step() dispatches to. *)

lda(c, address) ==
    LET value == read_byte(c.memory, address)
    IN  update_nz_flags([c EXCEPT !.a = value], value)

ldx(c, address) ==
    LET value == read_byte(c.memory, address)
    IN  update_nz_flags([c EXCEPT !.x = value], value)

ldy(c, address) ==
    LET value == read_byte(c.memory, address)
    IN  update_nz_flags([c EXCEPT !.y = value], value)

sta(c, address) == [c EXCEPT !.memory = write_byte(@, address, c.a)]

ora(c, address) ==
    LET r == BitOr(c.a, read_byte(c.memory, address), 8)
    IN  update_nz_flags([c EXCEPT !.a = r], r)

and(c, address) ==
    LET r == BitAnd(c.a, read_byte(c.memory, address), 8)
    IN  update_nz_flags([c EXCEPT !.a = r], r)

eor(c, address) ==
    LET r == BitXor(c.a, read_byte(c.memory, address), 8)
    IN  update_nz_flags([c EXCEPT !.a = r], r)

\* the common body of adc and sbc once the operand byte is fixed
AddWithCarry(c, value) ==
    LET carry == IF get_flag(c, StatusFlag.Carry) THEN 1 ELSE 0
        sum1  == Wrap8(c.a + value)
        sum2  == Wrap8(sum1 + carry)
        c1    == set_flag(c, StatusFlag.Carry,
                          c.a + value > 255 \/ sum1 + carry > 255)
        c2    == update_nz_flags(c1, sum2)
        c3    == set_flag(c2, StatusFlag.Overflow,
                          BitAnd(BitXor(c.a, sum2, 8), BitXor(value, sum2, 8), 8)
                            >= 128)
    IN  [c3 EXCEPT !.a = sum2]

adc(c, address) == AddWithCarry(c, read_byte(c.memory, address))

sbc(c, address) == AddWithCarry(c, 255 - read_byte(c.memory, address))

\* the common body of cmp, cpx and cpy once the register is fixed
Compare(c, reg, address) ==
    LET value  == read_byte(c.memory, address)
        result == Wrap8(reg + 256 - value)
        c1     == set_flag(c, StatusFlag.Carry, reg >= value)
        c2     == set_flag(c1, StatusFlag.Zero, reg = value)
    IN  set_flag(c2, StatusFlag.Negative, result >= 128)

cmp(c, address) == Compare(c, c.a, address)

cpx(c, address) == Compare(c, c.x, address)

cpy(c, address) == Compare(c, c.y, address)

tax(c) == update_nz_flags([c EXCEPT !.x = c.a], c.a)

tay(c) == update_nz_flags([c EXCEPT !.y = c.a], c.a)

txa(c) == update_nz_flags([c EXCEPT !.a = c.x], c.x)

tya(c) == update_nz_flags([c EXCEPT !.a = c.y], c.y)

inx(c) == update_nz_flags([c EXCEPT !.x = Wrap8(c.x + 1)], Wrap8(c.x + 1))

iny(c) == update_nz_flags([c EXCEPT !.y = Wrap8(c.y + 1)], Wrap8(c.y + 1))

dex(c) == update_nz_flags([c EXCEPT !.x = Wrap8(c.x + 255)], Wrap8(c.x + 255))

dey(c) == update_nz_flags([c EXCEPT !.y = Wrap8(c.y + 255)], Wrap8(c.y + 255))

jmp(c, address) == [c EXCEPT !.pc = address]

jsr(c, address) ==
    LET return_addr == Wrap16(c.pc + 1)
        c1 == push_stack(Overflow(c, c.pc + 1), return_addr \div 256)
        c2 == push_stack(c1, return_addr % 256)
    IN  [c2 EXCEPT !.pc = address]

rts(c) ==
    LET l == pull_stack(c)
        h == pull_stack(l.c)
    IN  [h.c EXCEPT !.pc = Wrap16(h.value * 256 + l.value + 1)]

\* rti() pulling the high byte of PC before the low byte
rti_high_byte_first(c) ==
    LET s == pull_stack(c)
        p == set_flag(set_flag([c EXCEPT !.p = s.value], StatusFlag.Break, FALSE),
                      StatusFlag.Unused, TRUE).p
        h == pull_stack([s.c EXCEPT !.p = p])
        l == pull_stack(h.c)
    IN  [l.c EXCEPT !.pc = h.value * 256 + l.value]

rti(c) ==
    LET s == pull_stack(c)
        \* status & 0b1110_1111 | 0b0010_0000
        p == set_flag(set_flag([c EXCEPT !.p = s.value], StatusFlag.Break, FALSE),
                      StatusFlag.Unused, TRUE).p
        l == pull_stack([s.c EXCEPT !.p = p])
        h == pull_stack(l.c)
    IN  [h.c EXCEPT !.pc = h.value * 256 + l.value]

branch(c, condition) ==
    IF condition
    THEN LET old_pc == c.pc
             offset == SignExtend(read_byte(c.memory, c.pc))
             new_pc == Wrap16(c.pc + offset)
         IN  [c EXCEPT !.pc = new_pc,
                       !.cycles = @ + 1
                                   + (IF page_crossed(old_pc, new_pc) THEN 1 ELSE 0)]
    ELSE c

bit(c, address) ==
    LET value  == read_byte(c.memory, address)
        result == BitAnd(c.a, value, 8)
        c1     == set_flag(c, StatusFlag.Zero, result = 0)
        c2     == set_flag(c1, StatusFlag.Negative, value >= 128)
    IN  set_flag(c2, StatusFlag.Overflow, get_bit(value, 6))

\* the common tail of asl and lsr: store the shifted value, set C, Z and N
Shifted(c, address, addressing_mode, carry, value) ==
    LET c1 == IF addressing_mode = "Implied"
              THEN [c EXCEPT !.a = value]
              ELSE [c EXCEPT !.memory = write_byte(@, address, value)]
        c2 == set_flag(c1, StatusFlag.Carry, carry)
        c3 == set_flag(c2, StatusFlag.Zero, value = 0)
    IN  set_flag(c3, StatusFlag.Negative, value >= 128)

asl(c, address, addressing_mode) ==
    LET old == IF addressing_mode = "Implied" THEN c.a
               ELSE read_byte(c.memory, address)
    IN  Shifted(c, address, addressing_mode, old >= 128, Wrap8(old * 2))

lsr(c, address, addressing_mode) ==
    LET old == IF addressing_mode = "Implied" THEN c.a
               ELSE read_byte(c.memory, address)
    IN  Shifted(c, address, addressing_mode, old % 2 = 1, old \div 2)

dec(c, address) ==
    LET value == Wrap8(read_byte(c.memory, address) + 255)
    IN  update_nz_flags([c EXCEPT !.memory = write_byte(@, address, value)], value)

inc(c, address) ==
    LET value == Wrap8(read_byte(c.memory, address) + 1)
    IN  update_nz_flags([c EXCEPT !.memory = write_byte(@, address, value)], value)

-----------------------------------------------------------------------------
(* Cpu::step. *)

\* the arm of `match instruction.opcode` that an opcode of the table selects
MatchArm(opcode) ==
    CASE opcode = \h00 -> "brk"
      [] opcode \in {\hA9, \hA5, \hB5, \hAD, \hBD, \hB9, \hA1, \hB1} -> "lda"
      [] opcode \in {\h09, \h05, \h15, \h0D, \h1D, \h19, \h01, \h11} -> "ora"
      [] opcode \in {\hC9, \hC5, \hD5, \hCD, \hDD, \hD9, \hC1, \hD1} -> "cmp"
      [] opcode \in {\hE0, \hE4, \hEC} -> "cpx"
      [] opcode \in {\hC0, \hC4, \hCC} -> "cpy"
      [] opcode = \hAA -> "tax"
      [] opcode = \hA8 -> "tay"
      [] opcode = \h8A -> "txa"
      [] opcode = \h98 -> "tya"
      [] opcode = \hE8 -> "inx"
      [] opcode = \hC8 -> "iny"
      [] opcode = \hCA -> "dex"
      [] opcode = \h88 -> "dey"
      [] opcode \in {\h85, \h95, \h8D, \h9D, \h99, \h81, \h91} -> "sta"
      [] opcode \in {\hA2, \hA6, \hAE, \hB6, \hBE} -> "ldx"
      [] opcode \in {\hA0, \hA4, \hB4, \hAC, \hBC} -> "ldy"
      [] opcode = \h20 -> "jsr"
      [] opcode = \h60 -> "rts"
      [] opcode = \h4C -> "jmp"
      [] opcode = \h10 -> "bpl"
      [] opcode = \h30 -> "bmi"
      [] opcode = \h50 -> "bvc"
      [] opcode = \h70 -> "bvs"
      [] opcode = \h90 -> "bcc"
      [] opcode = \hB0 -> "bcs"
      [] opcode = \hD0 -> "bne"
      [] opcode = \hF0 -> "beq"
      [] opcode \in {\h24, \h2C} -> "bit"
      [] opcode \in {\h69, \h65, \h75, \h6D, \h7D, \h79, \h61, \h71} -> "adc"
      [] opcode \in {\hE9, \hE5, \hF5, \hED, \hFD, \hF9, \hE1, \hF1} -> "sbc"
      [] opcode \in {\h4A, \h46, \h56, \h4E, \h5E} -> "lsr"
      [] opcode \in {\hC6, \hD6, \hCE, \hDE} -> "dec"
      [] opcode \in {\hE6, \hF6, \hEE, \hFE} -> "inc"
      [] opcode \in {\h29, \h25, \h35, \h2D, \h3D, \h39, \h21, \h31} -> "and"
      [] opcode \in {\h49, \h45, \h55, \h4D, \h5D, \h59, \h41, \h51} -> "eor"
      [] opcode \in {\h0A, \h06, \h16, \h0E, \h1E} -> "asl"
      [] opcode = \h18 -> "clc"
      [] opcode = \h38 -> "sec"
      [] opcode = \h40 -> "rti"
      [] opcode = \hEA -> "nop"
      [] OTHER -> "_"

\* the body of the selected arm (BRK returns from step() inside its arm)
execute(c, instruction, operand_address) ==
    LET arm  == MatchArm(instruction.opcode)
        addr == operand_address
        F    == StatusFlag
    IN  CASE arm = "lda" -> lda(c, addr)
          [] arm = "ora" -> ora(c, addr)
          [] arm = "cmp" -> cmp(c, addr)
          [] arm = "cpx" -> cpx(c, addr)
          [] arm = "cpy" -> cpy(c, addr)
          [] arm = "tax" -> tax(c)
          [] arm = "tay" -> tay(c)
          [] arm = "txa" -> txa(c)
          [] arm = "tya" -> tya(c)
          [] arm = "inx" -> inx(c)
          [] arm = "iny" -> iny(c)
          [] arm = "dex" -> dex(c)
          [] arm = "dey" -> dey(c)
          [] arm = "sta" -> sta(c, addr)
          [] arm = "ldx" -> ldx(c, addr)
          [] arm = "ldy" -> ldy(c, addr)
          [] arm = "jsr" -> jsr(c, addr)
          [] arm = "rts" -> rts(c)
          [] arm = "jmp" -> jmp(c, addr)
          [] arm = "bpl" -> branch(c, ~get_flag(c, F.Negative))
          [] arm = "bmi" -> branch(c, get_flag(c, F.Negative))
          [] arm = "bvc" -> branch(c, ~get_flag(c, F.Overflow))
          [] arm = "bvs" -> branch(c, get_flag(c, F.Overflow))
          [] arm = "bcc" -> branch(c, ~get_flag(c, F.Carry))
          [] arm = "bcs" -> branch(c, get_flag(c, F.Carry))
          [] arm = "bne" -> branch(c, ~get_flag(c, F.Zero))
          [] arm = "beq" -> branch(c, get_flag(c, F.Zero))
          [] arm = "bit" -> bit(c, addr)
          [] arm = "adc" -> adc(c, addr)
          [] arm = "sbc" -> sbc(c, addr)
          [] arm = "lsr" -> lsr(c, addr, instruction.addressing_mode)
          [] arm = "dec" -> dec(c, addr)
          [] arm = "inc" -> inc(c, addr)
          [] arm = "and" -> and(c, addr)
          [] arm = "eor" -> eor(c, addr)
          [] arm = "asl" -> asl(c, addr, instruction.addressing_mode)
          [] arm = "clc" -> set_flag(c, F.Carry, FALSE)
          [] arm = "sec" -> set_flag(c, F.Carry, TRUE)
          [] arm = "rti" -> rti(c)
          [] OTHER -> c      \* nop(), and the `_` arm, which only prints

\* step(): the Cpu it leaves and what it returns.  `res` is "Ok(true)",
\* "Ok(false)", "UnknownOpcode" or "InvalidInstruction"; an error carries the
\* opcode and pc fields of the error value.
step(c) ==
    LET opcode      == read_byte(c.memory, c.pc)
        instruction == get_instruction(opcode)
        ret(cc, res, arm) ==
            [cpu |-> cc, res |-> res, arm |-> arm, opcode |-> opcode, pc |-> c.pc]
    IN  IF ~instruction.some THEN ret(c, "UnknownOpcode", "none")
        ELSE
        LET \* the operand bytes read for the log line, and the branch target
            \* log_cpu_state formats
            c0 == Overflow(Overflow(c, c.pc + instruction.bytes - 1),
                           IF instruction.addressing_mode = "Relative"
                           THEN c.pc + 2 ELSE 0)
            c1 == [Overflow(c0, c.pc + 1) EXCEPT !.pc = Wrap16(c.pc + 1)]
            oa == get_operand_address(c1, instruction)
        IN  IF ~oa.ok THEN ret(c1, "InvalidInstruction", "none")
            ELSE
            LET c2 == IF oa.overflow THEN [c1 EXCEPT !.panicked = TRUE] ELSE c1
            IN  IF opcode = \h00 THEN ret(brk(c2), "Ok(false)", "brk")
                ELSE
                LET c3 == execute(c2, instruction, oa.addr)
                    c4 == IF instruction.mnemonic \notin {"JSR", "JMP", "RTS"}
                          THEN [Overflow(c3, c3.pc + instruction.bytes - 1)
                                  EXCEPT !.pc = Wrap16(c3.pc + instruction.bytes - 1)]
                          ELSE c3
                    c5 == [c4 EXCEPT !.instruction_count = @ + 1,
                                     !.cycles = @ + instruction.cycles]
                IN  ret(c5, "Ok(true)", MatchArm(opcode))

-----------------------------------------------------------------------------
(* The PPU.  The record holds the fields of Ppu that its operations read or *)
(* write; the fetch latches, sprite arrays and frame buffers are only ever  *)
(* initialised.                                                             *)

Ppu_new ==
    [ctrl |-> 0, mask |-> 0, status |-> 0, oam_addr |-> 0, data |-> 0,
     pattern_table |-> EmptyMap, name_table |-> EmptyMap,
     palette |-> EmptyMap, oam |-> EmptyMap,
     cycle |-> 0, scanline |-> 0, frame |-> 0,
     nmi_occurred |-> FALSE, nmi_output |-> FALSE,
     nmi_previous |-> FALSE, nmi_delay |-> 0,
     v |-> 0, t |-> 0, x |-> 0, w |-> FALSE, f |-> FALSE]

Ppu_reset(p) ==
    [p EXCEPT !.cycle = 0, !.scanline = 0, !.frame = 0,
              !.ctrl = 0, !.mask = 0, !.status = 0, !.oam_addr = 0, !.data = 0,
              !.v = 0, !.t = 0, !.x = 0, !.w = FALSE, !.f = FALSE,
              !.nmi_occurred = FALSE, !.nmi_output = FALSE,
              !.nmi_previous = FALSE, !.nmi_delay = 0]

\* Ppu::step ending the scanline one dot early (`cycle >= 340`)
Ppu_step_short_scanline(p) ==
    LET cycle == p.cycle + 1
        delay(q) == IF q.nmi_delay > 0 THEN [q EXCEPT !.nmi_delay = @ - 1] ELSE q
    IN  IF cycle >= 340
        THEN LET scanline == p.scanline + 1
             IN  IF scanline > 261
                 THEN [ppu |-> [p EXCEPT !.cycle = 0, !.scanline = 0,
                                         !.frame = @ + 1, !.f = ~@],
                       ret |-> TRUE]
                 ELSE [ppu |-> delay([p EXCEPT !.cycle = 0, !.scanline = scanline]),
                       ret |-> FALSE]
        ELSE [ppu |-> delay([p EXCEPT !.cycle = cycle]), ret |-> FALSE]

\* Ppu::step: the Ppu it leaves and the bool it returns (it never fails)
Ppu_step(p) ==
    LET cycle == p.cycle + 1
        delay(q) == IF q.nmi_delay > 0 THEN [q EXCEPT !.nmi_delay = @ - 1] ELSE q
    IN  IF cycle > 340
        THEN LET scanline == p.scanline + 1
             IN  IF scanline > 261
                 THEN [ppu |-> [p EXCEPT !.cycle = 0, !.scanline = 0,
                                         !.frame = @ + 1, !.f = ~@],
                       ret |-> TRUE]
                 ELSE [ppu |-> delay([p EXCEPT !.cycle = 0, !.scanline = scanline]),
                       ret |-> FALSE]
        ELSE [ppu |-> delay([p EXCEPT !.cycle = cycle]), ret |-> FALSE]

\* (word & !mask) | (field << lo), mask being `width` bits from bit lo
SetBits(word, lo, width, field) ==
    word - ((word \div (2 ^ lo)) % (2 ^ width)) * (2 ^ lo)
         + (field % (2 ^ width)) * (2 ^ lo)

\* read_memory: `ok` is FALSE for Err(OutOfBounds); `panic` is the bounds check
\* of the 32-cell palette array failing, for 0x3F40 and above
Ppu_read_memory(p, address) ==
    IF address <= \h1FFF
    THEN [ok |-> TRUE, panic |-> FALSE, value |-> Get(p.pattern_table, address)]
    ELSE IF address <= \h2FFF
    THEN [ok |-> TRUE, panic |-> FALSE, value |-> Get(p.name_table, address - \h2000)]
    ELSE IF address <= \h3EFF
    THEN [ok |-> TRUE, panic |-> FALSE, value |-> Get(p.name_table, address - \h3000)]
    ELSE IF address <= \h3F1F
    THEN [ok |-> TRUE, panic |-> FALSE, value |-> Get(p.palette, address - \h3F00)]
    ELSE IF address <= \h3FFF
    THEN [ok |-> TRUE, panic |-> address - \h3F20 >= \h20,
          value |-> Get(p.palette, address - \h3F20)]
    ELSE [ok |-> FALSE, panic |-> FALSE, value |-> 0]

\* write_memory: the Ppu it leaves; `ok` is FALSE for Err(OutOfBounds); `panic`
\* is the bounds check of the 32-cell palette array failing.
Ppu_write_memory(p, address, value) ==
    IF address <= \h1FFF
    THEN [ok |-> TRUE, panic |-> FALSE, ppu |-> [p EXCEPT !.pattern_table = Put(@, address, value)]]
    ELSE IF address <= \h2FFF
    THEN [ok |-> TRUE, panic |-> FALSE,
          ppu |-> [p EXCEPT !.name_table = Put(@, address - \h2000, value)]]
    ELSE IF address <= \h3EFF
    THEN [ok |-> TRUE, panic |-> FALSE,
          ppu |-> [p EXCEPT !.name_table = Put(@, address - \h3000, value)]]
    ELSE IF address <= \h3F1F
    THEN [ok |-> TRUE, panic |-> FALSE,
          ppu |-> [p EXCEPT !.palette = Put(@, address - \h3F00, value)]]
    ELSE IF address <= \h3F3F
    THEN [ok |-> TRUE, panic |-> FALSE,
          ppu |-> [p EXCEPT !.palette = Put(@, address - \h3F20, value)]]
    ELSE IF address <= \h3FFF
    THEN [ok |-> TRUE, panic |-> TRUE, ppu |-> p]
    ELSE [ok |-> FALSE, panic |-> FALSE, ppu |-> p]

VramIncrement(p) == IF get_bit(p.ctrl, 2) THEN 32 ELSE 1

\* read_register whose PPUSTATUS read leaves the VBlank bit as it is
Ppu_read_register_keeps_vblank(p, address) ==
    CASE address = \h2002 ->
            [ppu |-> [p EXCEPT !.w = FALSE], res |-> "Ok", value |-> p.status]
      [] address = \h2004 ->
            [ppu |-> p, res |-> "Ok", value |-> Get(p.oam, p.oam_addr)]
      [] address = \h2007 ->
            LET m == Ppu_read_memory(p, p.v)
            IN  IF ~m.ok THEN [ppu |-> p, res |-> "OutOfBounds", value |-> 0]
                ELSE IF m.panic THEN [ppu |-> p, res |-> "panic", value |-> 0]
                ELSE [ppu |-> [p EXCEPT !.data = m.value,
                                        !.v = IF p.v < \h3F00
                                              THEN @ + VramIncrement(p) ELSE @],
                      res |-> "Ok", value |-> p.data]
      [] OTHER -> [ppu |-> p, res |-> "InvalidRegion", value |-> 0]

\* read_register: the Ppu it leaves, `res` ("Ok", "InvalidRegion", "panic",
\* "OutOfBounds") and the byte returned
Ppu_read_register(p, address) ==
    CASE address = \h2002 ->
            [ppu |-> [p EXCEPT !.status = @ % 128, !.w = FALSE],
             res |-> "Ok", value |-> p.status]
      [] address = \h2004 ->
            [ppu |-> p, res |-> "Ok", value |-> Get(p.oam, p.oam_addr)]
      [] address = \h2007 ->
            LET m == Ppu_read_memory(p, p.v)
            IN  IF ~m.ok THEN [ppu |-> p, res |-> "OutOfBounds", value |-> 0]
                ELSE IF m.panic THEN [ppu |-> p, res |-> "panic", value |-> 0]
                ELSE [ppu |-> [p EXCEPT !.data = m.value,
                                        !.v = IF p.v < \h3F00
                                              THEN @ + VramIncrement(p) ELSE @],
                      res |-> "Ok", value |-> p.data]
      [] OTHER -> [ppu |-> p, res |-> "InvalidRegion", value |-> 0]

\* write_register whose first write to 0x2005 leaves w alone
Ppu_write_register_own_toggle(p, address, value) ==
    LET ok(q) == [ppu |-> q, res |-> "Ok"]
    IN  CASE address = \h2000 ->
                ok([p EXCEPT !.ctrl = value, !.t = SetBits(@, 10, 2, value % 4)])
          [] address = \h2001 -> ok([p EXCEPT !.mask = value])
          [] address = \h2003 -> ok([p EXCEPT !.oam_addr = value])
          [] address = \h2004 ->
                ok([p EXCEPT !.oam = Put(@, p.oam_addr, value),
                             !.oam_addr = Wrap8(@ + 1)])
          [] address = \h2005 ->
                IF ~p.w
                THEN ok([p EXCEPT !.t = SetBits(@, 0, 5, value \div 8),
                                  !.x = value % 8])
                ELSE ok([p EXCEPT !.t = SetBits(SetBits(@, 12, 3, value % 8),
                                                5, 5, value \div 8),
                                  !.w = FALSE])
          [] address = \h2006 ->
                IF ~p.w
                THEN ok([p EXCEPT !.t = SetBits(@, 8, 7, value % 64), !.w = TRUE])
                ELSE LET t == SetBits(p.t, 0, 8, value)
                     IN  ok([p EXCEPT !.t = t, !.v = t, !.w = FALSE])
          [] address = \h2007 ->
                LET m == Ppu_write_memory(p, p.v, value)
                IN  IF ~m.ok THEN [ppu |-> p, res |-> "OutOfBounds"]
                    ELSE IF m.panic THEN [ppu |-> p, res |-> "panic"]
                    ELSE ok([m.ppu EXCEPT !.v = @ + VramIncrement(p)])
          [] OTHER -> [ppu |-> p, res |-> "InvalidRegion"]

\* write_register whose second write to 0x2005 puts 4 bits of the value at
\* bit 12 of t
Ppu_write_register_unmasked_fine_y(p, address, value) ==
    LET ok(q) == [ppu |-> q, res |-> "Ok"]
    IN  CASE address = \h2000 ->
                ok([p EXCEPT !.ctrl = value, !.t = SetBits(@, 10, 2, value % 4)])
          [] address = \h2001 -> ok([p EXCEPT !.mask = value])
          [] address = \h2003 -> ok([p EXCEPT !.oam_addr = value])
          [] address = \h2004 ->
                ok([p EXCEPT !.oam = Put(@, p.oam_addr, value),
                             !.oam_addr = Wrap8(@ + 1)])
          [] address = \h2005 ->
                IF ~p.w
                THEN ok([p EXCEPT !.t = SetBits(@, 0, 5, value \div 8),
                                  !.x = value % 8, !.w = TRUE])
                ELSE ok([p EXCEPT !.t = SetBits(SetBits(@, 12, 4, value % 16),
                                                5, 5, value \div 8),
                                  !.w = FALSE])
          [] address = \h2006 ->
                IF ~p.w
                THEN ok([p EXCEPT !.t = SetBits(@, 8, 7, value % 64), !.w = TRUE])
                ELSE LET t == SetBits(p.t, 0, 8, value)
                     IN  ok([p EXCEPT !.t = t, !.v = t, !.w = FALSE])
          [] address = \h2007 ->
                LET m == Ppu_write_memory(p, p.v, value)
                IN  IF ~m.ok THEN [ppu |-> p, res |-> "OutOfBounds"]
                    ELSE IF m.panic THEN [ppu |-> p, res |-> "panic"]
                    ELSE ok([m.ppu EXCEPT !.v = @ + VramIncrement(p)])
          [] OTHER -> [ppu |-> p, res |-> "InvalidRegion"]

\* write_register: the Ppu it leaves and `res`
Ppu_write_register(p, address, value) ==
    LET ok(q) == [ppu |-> q, res |-> "Ok"]
    IN  CASE address = \h2000 ->
                ok([p EXCEPT !.ctrl = value, !.t = SetBits(@, 10, 2, value % 4)])
          [] address = \h2001 -> ok([p EXCEPT !.mask = value])
          [] address = \h2003 -> ok([p EXCEPT !.oam_addr = value])
          [] address = \h2004 ->
                ok([p EXCEPT !.oam = Put(@, p.oam_addr, value),
                             !.oam_addr = Wrap8(@ + 1)])
          [] address = \h2005 ->
                IF ~p.w
                THEN ok([p EXCEPT !.t = SetBits(@, 0, 5, value \div 8),
                                  !.x = value % 8, !.w = TRUE])
                ELSE ok([p EXCEPT !.t = SetBits(SetBits(@, 12, 3, value % 8),
                                                5, 5, value \div 8),
                                  !.w = FALSE])
          [] address = \h2006 ->
                IF ~p.w
                THEN ok([p EXCEPT !.t = SetBits(@, 8, 7, value % 64), !.w = TRUE])
                ELSE LET t == SetBits(p.t, 0, 8, value)
                     IN  ok([p EXCEPT !.t = t, !.v = t, !.w = FALSE])
          [] address = \h2007 ->
                LET m == Ppu_write_memory(p, p.v, value)
                IN  IF ~m.ok THEN [ppu |-> p, res |-> "OutOfBounds"]
                    ELSE IF m.panic THEN [ppu |-> p, res |-> "panic"]
                    ELSE ok([m.ppu EXCEPT !.v = @ + VramIncrement(p)])
          [] OTHER -> [ppu |-> p, res |-> "InvalidRegion"]

-----------------------------------------------------------------------------
(* The APU: the five channels and the frame sequencer.                      *)

LENGTH_TABLE ==
    <<10, 254, 20, 2, 40, 4, 80, 6, 160, 8, 60, 10, 14, 12, 26, 14,
      12, 16, 24, 18, 48, 20, 96, 22, 192, 24, 72, 26, 16, 28, 32, 30>>

NOISE_PERIOD_TABLE ==
    <<4, 8, 16, 32, 64, 96, 128, 160, 202, 254, 380, 508, 762, 1016, 2034, 4068>>

DMC_RATE_TABLE ==
    <<428, 380, 340, 320, 286, 254, 226, 214, 190, 160, 142, 128, 106, 84, 72, 54>>

\* Ok(()) with the channel, or Err(InvalidRegion) with the channel as it was
Written(ch) == [ch |-> ch, res |-> "Ok"]

PulseChannel_new(channel) ==
    [enabled |-> FALSE, channel |-> channel, duty_cycle |-> 0,
     length_counter |-> 0, envelope_enabled |-> FALSE, envelope_loop |-> FALSE,
     envelope_start |-> FALSE, envelope_divider |-> 0, envelope_counter |-> 0,
     envelope_volume |-> 0, sweep_enabled |-> FALSE, sweep_period |-> 0,
     sweep_negate |-> FALSE, sweep_shift |-> 0, sweep_reload |-> FALSE,
     sweep_counter |-> 0, timer_period |-> 0, timer_counter |-> 0,
     sequence_counter |-> 0]

PulseChannel_reset(p) ==
    [p EXCEPT !.enabled = FALSE, !.length_counter = 0, !.envelope_start = FALSE,
              !.envelope_counter = 0, !.sweep_reload = FALSE, !.sweep_counter = 0,
              !.timer_counter = 0, !.sequence_counter = 0]

PulseChannel_step(p) ==
    IF p.timer_counter = 0
    THEN [p EXCEPT !.timer_counter = p.timer_period,
                   !.sequence_counter = (@ + 1) % 8]
    ELSE [p EXCEPT !.timer_counter = @ - 1]

\* the envelope of the pulse and noise channels
step_envelope(ch) ==
    IF ch.envelope_start
    THEN [ch EXCEPT !.envelope_start = FALSE, !.envelope_counter = 15,
                    !.envelope_divider = ch.envelope_volume]
    ELSE IF ch.envelope_divider = 0
    THEN [ch EXCEPT !.envelope_divider = ch.envelope_volume,
                    !.envelope_counter =
                        IF @ = 0 THEN (IF ch.envelope_loop THEN 15 ELSE 0)
                        ELSE @ - 1]
    ELSE [ch EXCEPT !.envelope_divider = @ - 1]

\* step_length_counter of a pulse channel that ignores the halt flag
PulseChannel_step_length_counter_no_halt(p) ==
    IF p.length_counter > 0
    THEN [p EXCEPT !.length_counter = @ - 1]
    ELSE p

PulseChannel_step_length_counter(p) ==
    IF p.length_counter > 0 /\ ~p.envelope_loop
    THEN [p EXCEPT !.length_counter = @ - 1]
    ELSE p

saturating_sub(a, b) == IF a < b THEN 0 ELSE a - b

saturating_add(a, b) == IF a + b > 65535 THEN 65535 ELSE a + b

PulseChannel_step_sweep(p) ==
    IF p.sweep_reload
    THEN [p EXCEPT !.sweep_reload = FALSE, !.sweep_counter = p.sweep_period]
    ELSE IF p.sweep_counter = 0
    THEN LET change == p.timer_period \div (2 ^ p.sweep_shift)
             q == [p EXCEPT !.sweep_counter = p.sweep_period]
         IN  IF ~p.sweep_enabled THEN q
             ELSE IF p.sweep_negate
             THEN LET t == saturating_sub(p.timer_period, change)
                  IN  [q EXCEPT !.timer_period =
                          IF p.channel = 0 THEN saturating_sub(t, 1) ELSE t]
             ELSE [q EXCEPT !.timer_period = saturating_add(@, change)]
    ELSE [p EXCEPT !.sweep_counter = @ - 1]

PulseChannel_write_register(p, address, value) ==
    LET reg == address - (IF p.channel = 0 THEN \h4000 ELSE \h4004)
    IN  CASE reg = 0 ->
               Written([p EXCEPT !.duty_cycle = value \div 64,
                                 !.envelope_loop = get_bit(value, 5),
                                 !.envelope_enabled = ~get_bit(value, 4),
                                 !.envelope_volume = value % 16])
          [] reg = 1 ->
               Written([p EXCEPT !.sweep_enabled = get_bit(value, 7),
                                 !.sweep_period = (value \div 16) % 8,
                                 !.sweep_negate = get_bit(value, 3),
                                 !.sweep_shift = value % 8,
                                 !.sweep_reload = TRUE])
          [] reg = 2 ->
               Written([p EXCEPT !.timer_period = (@ \div 256) * 256 + value])
          [] reg = 3 ->
               Written([p EXCEPT !.timer_period = (@ % 256) + (value % 8) * 256,
                                 !.length_counter = LENGTH_TABLE[(value \div 8) + 1],
                                 !.envelope_start = TRUE,
                                 !.sequence_counter = 0])
          [] OTHER -> [ch |-> p, res |-> "InvalidRegion"]

TriangleChannel_new ==
    [enabled |-> FALSE, length_counter |-> 0, linear_counter |-> 0,
     linear_counter_reload |-> 0, linear_counter_control |-> FALSE,
     linear_counter_reload_flag |-> FALSE, timer_period |-> 0,
     timer_counter |-> 0, sequence_counter |-> 0]

TriangleChannel_reset(t) ==
    [t EXCEPT !.enabled = FALSE, !.length_counter = 0, !.linear_counter = 0,
              !.linear_counter_reload_flag = FALSE, !.timer_counter = 0,
              !.sequence_counter = 0]

TriangleChannel_step(t) ==
    IF t.timer_counter = 0
    THEN [t EXCEPT !.timer_counter = t.timer_period,
                   !.sequence_counter =
                       IF t.length_counter > 0 /\ t.linear_counter > 0
                       THEN (@ + 1) % 32 ELSE @]
    ELSE [t EXCEPT !.timer_counter = @ - 1]

\* the linear counter
TriangleChannel_step_envelope(t) ==
    [t EXCEPT !.linear_counter =
                  IF t.linear_counter_reload_flag THEN t.linear_counter_reload
                  ELSE IF @ > 0 THEN @ - 1 ELSE @,
              !.linear_counter_reload_flag =
                  IF ~t.linear_counter_control THEN FALSE ELSE @]

TriangleChannel_step_length_counter(t) ==
    IF t.length_counter > 0 /\ ~t.linear_counter_control
    THEN [t EXCEPT !.length_counter = @ - 1]
    ELSE t

TriangleChannel_write_register(t, address, value) ==
    CASE address = \h4008 ->
           Written([t EXCEPT !.linear_counter_control = get_bit(value, 7),
                             !.linear_counter_reload = value % 128])
      [] address = \h400A ->
           Written([t EXCEPT !.timer_period = (@ \div 256) * 256 + value])
      [] address = \h400B ->
           Written([t EXCEPT !.timer_period = (@ % 256) + (value % 8) * 256,
                             !.length_counter = LENGTH_TABLE[(value \div 8) + 1],
                             !.linear_counter_reload_flag = TRUE])
      [] OTHER -> [ch |-> t, res |-> "InvalidRegion"]

NoiseChannel_new ==
    [enabled |-> FALSE, length_counter |-> 0, envelope_enabled |-> FALSE,
     envelope_loop |-> FALSE, envelope_start |-> FALSE, envelope_divider |-> 0,
     envelope_counter |-> 0, envelope_volume |-> 0, timer_period |-> 0,
     timer_counter |-> 0, mode |-> FALSE, shift_register |-> 1]

NoiseChannel_reset(n) ==
    [n EXCEPT !.enabled = FALSE, !.length_counter = 0, !.envelope_start = FALSE,
              !.envelope_counter = 0, !.timer_counter = 0, !.shift_register = 1]

\* NoiseChannel::step whose feedback is the AND of the two tapped bits
NoiseChannel_step_and_feedback(n) ==
    IF n.timer_counter = 0
    THEN LET tap == IF n.mode THEN 6 ELSE 1
             feedback == IF get_bit(n.shift_register, 0)
                            /\ get_bit(n.shift_register, tap) THEN 1 ELSE 0
         IN  [n EXCEPT !.timer_counter = n.timer_period,
                       !.shift_register = (@ \div 2) + feedback * 16384]
    ELSE [n EXCEPT !.timer_counter = @ - 1]

NoiseChannel_step(n) ==
    IF n.timer_counter = 0
    THEN LET tap == IF n.mode THEN 6 ELSE 1
             feedback == IF get_bit(n.shift_register, 0)
                            # get_bit(n.shift_register, tap) THEN 1 ELSE 0
             shifted == n.shift_register \div 2
         IN  [n EXCEPT !.timer_counter = n.timer_period,
                       !.shift_register =
                           \* shifted | (feedback << 14), in 16 bits
                           IF get_bit(shifted, 14) THEN shifted
                           ELSE shifted + feedback * 16384]
    ELSE [n EXCEPT !.timer_counter = @ - 1]

NoiseChannel_step_length_counter(n) ==
    IF n.length_counter > 0 /\ ~n.envelope_loop
    THEN [n EXCEPT !.length_counter = @ - 1]
    ELSE n

NoiseChannel_write_register(n, address, value) ==
    CASE address = \h400C ->
           Written([n EXCEPT !.envelope_loop = get_bit(value, 5),
                             !.envelope_enabled = ~get_bit(value, 4),
                             !.envelope_volume = value % 16])
      [] address = \h400E ->
           Written([n EXCEPT !.mode = get_bit(value, 7),
                             !.timer_period = NOISE_PERIOD_TABLE[(value % 16) + 1]])
      [] address = \h400F ->
           Written([n EXCEPT !.length_counter = LENGTH_TABLE[(value \div 8) + 1],
                             !.envelope_start = TRUE])
      [] OTHER -> [ch |-> n, res |-> "InvalidRegion"]

DmcChannel_new ==
    [enabled |-> FALSE, irq_enabled |-> FALSE, loop_flag |-> FALSE,
     rate_index |-> 0, timer_period |-> 0, timer_counter |-> 0,
     sample_address |-> 0, sample_length |-> 0, current_address |-> 0,
     bytes_remaining |-> 0, sample_buffer |-> 0, sample_buffer_empty |-> TRUE,
     shift_register |-> 0, bits_remaining |-> 0, silence_flag |-> TRUE,
     output_level |-> 0]

DmcChannel_reset(d) ==
    [d EXCEPT !.enabled = FALSE, !.bytes_remaining = 0,
              !.sample_buffer_empty = TRUE, !.bits_remaining = 0,
              !.silence_flag = TRUE, !.output_level = 0]

\* bits_remaining -= 1 on a u8: at 0 it overflows (a panic in a build with
\* overflow checks, 255 in one without); `overflow` reports it
DmcChannel_step(d) ==
    IF d.timer_counter = 0
    THEN LET level == IF d.silence_flag THEN d.output_level
                      ELSE IF get_bit(d.shift_register, 0)
                      THEN (IF d.output_level <= 125 THEN d.output_level + 2
                            ELSE d.output_level)
                      ELSE IF d.output_level >= 2 THEN d.output_level - 2
                      ELSE d.output_level
             bits == Wrap8(d.bits_remaining - 1)
             t == [d EXCEPT !.timer_counter = d.timer_period,
                            !.output_level = level,
                            !.shift_register = @ \div 2,
                            !.bits_remaining = bits]
         IN  [ch |-> IF bits # 0 THEN t
                     ELSE IF d.sample_buffer_empty
                     THEN [t EXCEPT !.bits_remaining = 8, !.silence_flag = TRUE]
                     ELSE [t EXCEPT !.bits_remaining = 8, !.silence_flag = FALSE,
                                    !.shift_register = d.sample_buffer,
                                    !.sample_buffer_empty = TRUE],
              overflow |-> d.bits_remaining = 0]
    ELSE [ch |-> [d EXCEPT !.timer_counter = @ - 1], overflow |-> FALSE]

DmcChannel_write_register(d, address, value) ==
    CASE address = \h4010 ->
           Written([d EXCEPT !.irq_enabled = get_bit(value, 7),
                             !.loop_flag = get_bit(value, 6),
                             !.rate_index = value % 16,
                             !.timer_period = DMC_RATE_TABLE[(value % 16) + 1]])
      [] address = \h4011 -> Written([d EXCEPT !.output_level = value % 128])
      [] address = \h4012 -> Written([d EXCEPT !.sample_address = \hC000 + value * 64])
      [] address = \h4013 -> Written([d EXCEPT !.sample_length = value * 16 + 1])
      [] OTHER -> [ch |-> d, res |-> "InvalidRegion"]

\* The mixer's two tables are constants of Mixer::new and are not state.
Apu_new ==
    [pulse1 |-> PulseChannel_new(0), pulse2 |-> PulseChannel_new(1),
     triangle |-> TriangleChannel_new, noise |-> NoiseChannel_new,
     dmc |-> DmcChannel_new, frame_counter |-> 0, frame_sequence |-> 0,
     interrupt_inhibit |-> FALSE, five_step_mode |-> FALSE, cycle |-> 0]

Apu_reset(a) ==
    [a EXCEPT !.pulse1 = PulseChannel_reset(@), !.pulse2 = PulseChannel_reset(@),
              !.triangle = TriangleChannel_reset(@),
              !.noise = NoiseChannel_reset(@), !.dmc = DmcChannel_reset(@),
              !.frame_counter = 0, !.frame_sequence = 0,
              !.interrupt_inhibit = FALSE, !.five_step_mode = FALSE,
              !.cycle = 0]

Apu_step_envelope(a) ==
    [a EXCEPT !.pulse1 = step_envelope(@), !.pulse2 = step_envelope(@),
              !.triangle = TriangleChannel_step_envelope(@),
              !.noise = step_envelope(@)]

Apu_step_length_counter(a) ==
    [a EXCEPT !.pulse1 = PulseChannel_step_length_counter(@),
              !.pulse2 = PulseChannel_step_length_counter(@),
              !.triangle = TriangleChannel_step_length_counter(@),
              !.noise = NoiseChannel_step_length_counter(@)]

step_frame_counter(a) ==
    LET s == a.frame_sequence
        both == Apu_step_length_counter(Apu_step_envelope(a))
    IN  IF a.five_step_mode
        THEN [(CASE s \in {0, 2} -> Apu_step_envelope(a)
                 [] s \in {1, 4} -> both
                 [] OTHER -> a)
              EXCEPT !.frame_sequence = (s + 1) % 5]
        ELSE [(CASE s \in {0, 2} -> Apu_step_envelope(a)
                 [] s \in {1, 3} -> both
                 [] OTHER -> a)
              EXCEPT !.frame_sequence = (s + 1) % 4]

FRAME_PERIOD == 7457

\* the five channel steps of Apu::step
StepChannels(a) ==
    LET d == DmcChannel_step(a.dmc)
    IN  [apu |-> [a EXCEPT !.pulse1 = PulseChannel_step(@),
                           !.pulse2 = PulseChannel_step(@),
                           !.triangle = TriangleChannel_step(@),
                           !.noise = NoiseChannel_step(@),
                           !.dmc = d.ch],
         overflow |-> d.overflow]

Apu_step(a) ==
    LET c == StepChannels([a EXCEPT !.cycle = @ + 1])
    IN  [apu |-> IF c.apu.cycle % FRAME_PERIOD = 0
                 THEN step_frame_counter(c.apu) ELSE c.apu,
         overflow |-> c.overflow]

Apu_read_register(a, address) ==
    IF address = \h4015
    THEN [res |-> "Ok",
          value |-> (IF a.pulse1.length_counter > 0 THEN 1 ELSE 0)
                    + (IF a.pulse2.length_counter > 0 THEN 2 ELSE 0)
                    + (IF a.triangle.length_counter > 0 THEN 4 ELSE 0)
                    + (IF a.noise.length_counter > 0 THEN 8 ELSE 0)
                    + (IF a.dmc.bytes_remaining > 0 THEN 16 ELSE 0)]
    ELSE [res |-> "InvalidRegion", value |-> 0]

Apu_write_status(a, value) ==
    [a EXCEPT !.pulse1.enabled = get_bit(value, 0),
              !.pulse2.enabled = get_bit(value, 1),
              !.triangle.enabled = get_bit(value, 2),
              !.noise.enabled = get_bit(value, 3),
              !.dmc.enabled = get_bit(value, 4),
              !.pulse1.length_counter = IF get_bit(value, 0) THEN @ ELSE 0,
              !.pulse2.length_counter = IF get_bit(value, 1) THEN @ ELSE 0,
              !.triangle.length_counter = IF get_bit(value, 2) THEN @ ELSE 0,
              !.noise.length_counter = IF get_bit(value, 3) THEN @ ELSE 0,
              !.dmc.bytes_remaining = IF get_bit(value, 4) THEN @ ELSE 0]

Apu_write_register(a, address, value) ==
    LET to(field, w) == [apu |-> [a EXCEPT ![field] = w.ch], res |-> w.res]
    IN  CASE address \in \h4000..\h4003 ->
               to("pulse1", PulseChannel_write_register(a.pulse1, address, value))
          [] address \in \h4004..\h4007 ->
               to("pulse2", PulseChannel_write_register(a.pulse2, address, value))
          [] address \in \h4008..\h400B ->
               to("triangle", TriangleChannel_write_register(a.triangle, address, value))
          [] address \in \h400C..\h400F ->
               to("noise", NoiseChannel_write_register(a.noise, address, value))
          [] address \in \h4010..\h4013 ->
               to("dmc", DmcChannel_write_register(a.dmc, address, value))
          [] address = \h4015 -> [apu |-> Apu_write_status(a, value), res |-> "Ok"]
          [] address = \h4017 ->
               LET b == [a EXCEPT !.interrupt_inhibit = get_bit(value, 6),
                                  !.five_step_mode = get_bit(value, 7)]
               IN  [apu |-> IF b.five_step_mode
                            THEN Apu_step_length_counter(Apu_step_envelope(b))
                            ELSE b,
                    res |-> "Ok"]
          [] OTHER -> [apu |-> a, res |-> "InvalidRegion"]

-----------------------------------------------------------------------------
(* Cartridges.  A Rom is its prg_rom (a map from offsets, zero bytes left   *)
(* out) and prg_rom.len().  Every cartridge here holds 32 KiB, the reset    *)
(* vector at PROGRAM_ADDRESS, and an RTI as its NMI and its IRQ handler.    *)

PROGRAM_ADDRESS == \h8000

NmiHandler == \h9010

IrqHandler == \hA020

Rom(program) ==
    [len |-> \h8000,
     prg_rom |-> Image(0, program)
                 @@ Image(NmiHandler - \h8000, <<\h40>>)
                 @@ Image(IrqHandler - \h8000, <<\h40>>)
                 @@ Image(\h7FFA, <<NmiHandler % 256, NmiHandler \div 256,
                                    PROGRAM_ADDRESS % 256, PROGRAM_ADDRESS \div 256,
                                    IrqHandler % 256, IrqHandler \div 256>>)]

\* LDA #$80; LDX #$01; LDY #$01
Prelude == <<\hA9, \h80, \hA2, \h01, \hA0, \h01>>

\* the two bytes that follow the probed opcode
Operands == {<<\h10, \h00>>, <<\hFF, \h80>>}

\* one opcode byte with its operand bytes, at the reset address or after Prelude
ProbeRoms ==
    {Rom(pre \o <<op>> \o operands) :
        pre \in {<<>>, Prelude}, op \in Byte, operands \in Operands}

\* LDA #$80; STA $2000; JMP $8005
LoopRom == Rom(<<\hA9, \h80, \h8D, \h00, \h20, \h4C, \h05, \h80>>)

\* RTI at the reset address: it pulls P = 0x20 and PC = 0 off the empty stack
RtiRom == Rom(<<\h40>>)

EmuRoms == {LoopRom, RtiRom}

\* Emulator::new: Cpu::new(), load_rom, reset
Emulator_new(rom) == reset(Cpu_new(rom))

\* Rust's overflow check on a u16 addition: with the check on the call panics
\* and the state is the one it started from, dead; with it off the sum wraps.
Outcomes(c, r) ==
    IF r.cpu.panicked
    THEN {[r EXCEPT !.cpu.panicked = FALSE],
          [r EXCEPT !.cpu = [c EXCEPT !.panicked = TRUE], !.res = "panic"]}
    ELSE {r}

NoHist == [calls |-> 0, nmis |-> 0, dots |-> 0, odd |-> FALSE]

NoLast == [op |-> "new", res |-> "Ok"]

-----------------------------------------------------------------------------
(* Controller. *)

Button == <<"A", "B", "Select", "Start", "Up", "Down", "Left", "Right">>

Controller_new ==
    [a |-> FALSE, b |-> FALSE, select |-> FALSE, start |-> FALSE,
     up |-> FALSE, down |-> FALSE, left |-> FALSE, right |-> FALSE,
     strobe |-> FALSE, index |-> 0, buttons |-> 0]

update_buttons(c) ==
    [c EXCEPT !.buttons = (IF c.a THEN \h01 ELSE 0) + (IF c.b THEN \h02 ELSE 0)
                        + (IF c.select THEN \h04 ELSE 0) + (IF c.start THEN \h08 ELSE 0)
                        + (IF c.up THEN \h10 ELSE 0) + (IF c.down THEN \h20 ELSE 0)
                        + (IF c.left THEN \h40 ELSE 0) + (IF c.right THEN \h80 ELSE 0)]

set_button(c, button, pressed) ==
    update_buttons(
        CASE button = "A" -> [c EXCEPT !.a = pressed]
          [] button = "B" -> [c EXCEPT !.b = pressed]
          [] button = "Select" -> [c EXCEPT !.select = pressed]
          [] button = "Start" -> [c EXCEPT !.start = pressed]
          [] button = "Up" -> [c EXCEPT !.up = pressed]
          [] button = "Down" -> [c EXCEPT !.down = pressed]
          [] button = "Left" -> [c EXCEPT !.left = pressed]
          [] button = "Right" -> [c EXCEPT !.right = pressed])

Controller_write(c, value) ==
    LET new_strobe == value % 2 = 1
        c1 == IF c.strobe /\ ~new_strobe THEN [c EXCEPT !.index = 0] ELSE c
        c2 == [c1 EXCEPT !.strobe = new_strobe]
    IN  IF c2.strobe THEN [c2 EXCEPT !.index = 0] ELSE c2

\* read that returns the bit at 7 - index (Right first)
Controller_read_right_first(c) ==
    IF c.index < 8
    THEN [ret |-> (c.buttons \div (2 ^ (7 - c.index))) % 2,
          pad |-> IF ~c.strobe THEN [c EXCEPT !.index = @ + 1] ELSE c]
    ELSE [ret |-> 1, pad |-> c]

Controller_read(c) ==
    IF c.index < 8
    THEN [ret |-> (c.buttons \div (2 ^ c.index)) % 2,
          pad |-> IF ~c.strobe THEN [c EXCEPT !.index = @ + 1] ELSE c]
    ELSE [ret |-> 1, pad |-> c]

\* no audio device opened
NoAudio == None

\* no file loaded, no mapper made
NoCart == [rom |-> None, mapper |-> None, file |-> None, res |-> "new"]

-----------------------------------------------------------------------------
(* The CPU on its own: step(), irq(), nmi() and reset() called in any order. *)

Init ==
    /\ cpu \in {Emulator_new(rom) : rom \in ProbeRoms}
    /\ emu = [cpu_running |-> TRUE]
    /\ ppu = Ppu_new
    /\ apu = Apu_new
    /\ pad = Controller_new
    /\ audio = NoAudio
    /\ cart = NoCart
    /\ last = NoLast
    /\ hist = NoHist

CpuStep ==
    /\ ~cpu.panicked
    /\ cpu.instruction_count < MaxInstr
    /\ \E o \in Outcomes(cpu, step(cpu)) :
          /\ cpu' = o.cpu
          /\ last' = [op |-> "step", res |-> o.res, opcode |-> o.opcode,
                      pc |-> o.pc, arm |-> o.arm, pre |-> cpu]
    /\ UNCHANGED <<pad, audio, cart, emu, ppu, apu, hist>>

CpuIrq ==
    /\ ~cpu.panicked
    /\ hist.calls < MaxIntr
    /\ cpu' = irq(cpu)
    /\ last' = [op |-> "irq", res |-> "Ok", pre |-> cpu]
    /\ hist' = [hist EXCEPT !.calls = @ + 1]
    /\ UNCHANGED <<pad, audio, cart, emu, ppu, apu>>

CpuNmi ==
    /\ ~cpu.panicked
    /\ hist.calls < MaxIntr
    /\ cpu' = nmi(cpu)
    /\ last' = [op |-> "nmi", res |-> "Ok", pre |-> cpu]
    /\ hist' = [hist EXCEPT !.calls = @ + 1, !.nmis = @ + 1]
    /\ UNCHANGED <<pad, audio, cart, emu, ppu, apu>>

CpuReset ==
    /\ ~cpu.panicked
    /\ hist.calls < MaxIntr
    /\ cpu' = reset(cpu)
    /\ last' = [op |-> "reset", res |-> "Ok"]
    /\ hist' = [hist EXCEPT !.calls = @ + 1]
    /\ UNCHANGED <<pad, audio, cart, emu, ppu, apu>>

Next == CpuStep \/ CpuIrq \/ CpuNmi \/ CpuReset

Spec == Init /\ [][Next]_vars

-----------------------------------------------------------------------------
(* Emulator::run.  One iteration of its loop handles a key or steps the CPU *)
(* (an N key, or the timer in auto mode), and then disassembles around PC.  *)

\* the end of the disassembled window, `pc + 20`, a plain u16 addition
disassemble_to_string(c) == Overflow(c, c.pc + 20)

InitEmu ==
    /\ cpu \in {Emulator_new(rom) : rom \in EmuRoms}
    /\ emu = [cpu_running |-> TRUE]
    /\ ppu = Ppu_new
    /\ apu = Apu_new
    /\ pad = Controller_new
    /\ audio = NoAudio
    /\ cart = NoCart
    /\ last = NoLast
    /\ hist = NoHist

EmuStep ==
    /\ ~cpu.panicked
    /\ emu.cpu_running
    /\ cpu.cycles < MaxCycles
    /\ LET r == step(cpu)
       IN  \E o \in Outcomes(cpu, [r EXCEPT !.cpu = disassemble_to_string(@)]) :
              /\ cpu' = o.cpu
              /\ emu' = [emu EXCEPT !.cpu_running = (o.res = "Ok(true)")]
              /\ last' = [op |-> "step", res |-> o.res, opcode |-> o.opcode,
                          pc |-> o.pc, arm |-> o.arm, pre |-> cpu]
    /\ UNCHANGED <<pad, audio, cart, ppu, apu, hist>>

EmuKeyI ==
    /\ ~cpu.panicked
    /\ hist.calls < MaxIntr
    /\ \E o \in Outcomes(cpu, [cpu |-> disassemble_to_string(irq(cpu)),
                               res |-> "Ok"]) :
          /\ cpu' = o.cpu
          /\ last' = [op |-> "irq", res |-> o.res, pre |-> cpu]
    /\ hist' = [hist EXCEPT !.calls = @ + 1]
    /\ UNCHANGED <<pad, audio, cart, emu, ppu, apu>>

\* Emulator::reset: cpu.reset() and the disassembly lines cleared
EmuKeyR ==
    /\ ~cpu.panicked
    /\ hist.calls < MaxIntr
    /\ \E o \in Outcomes(cpu, [cpu |-> disassemble_to_string(reset(cpu)),
                               res |-> "Ok"]) :
          /\ cpu' = o.cpu
          /\ last' = [op |-> "Emulator::reset", res |-> o.res]
    /\ hist' = [hist EXCEPT !.calls = @ + 1]
    /\ UNCHANGED <<pad, audio, cart, emu, ppu, apu>>

NextEmu == EmuStep \/ EmuKeyI \/ EmuKeyR

SpecEmu == InitEmu /\ [][NextEmu]_vars

-----------------------------------------------------------------------------
(* Reset, with an Apu driven next to the emulator.  Emulator owns a Cpu     *)
(* only; the Apu here is one its owner enables channels of.                 *)

StatusWrites == {\h00, \h15, \h1F}

ResetStep ==
    /\ cpu.instruction_count < MaxInstr
    /\ EmuStep

ApuWriteStatus ==
    /\ hist.calls < MaxIntr
    /\ \E value \in StatusWrites :
          /\ apu' = Apu_write_status(apu, value)
          /\ last' = [op |-> "Apu::write_register", res |-> "Ok",
                      address |-> \h4015, value |-> value]
    /\ hist' = [hist EXCEPT !.calls = @ + 1]
    /\ UNCHANGED <<pad, audio, cart, cpu, emu, ppu>>

ApuReset ==
    /\ hist.calls < MaxIntr
    /\ apu' = Apu_reset(apu)
    /\ last' = [op |-> "Apu::reset", res |-> "Ok"]
    /\ hist' = [hist EXCEPT !.calls = @ + 1]
    /\ UNCHANGED <<pad, audio, cart, cpu, emu, ppu>>

NextReset == ResetStep \/ EmuKeyR \/ ApuWriteStatus \/ ApuReset

SpecReset == InitEmu /\ [][NextReset]_vars

-----------------------------------------------------------------------------
(* The PPU's timing: step() and reset() from power-on.                      *)

DotsPerFrame == 341 * 262

\* the place of (scanline, cycle) in the frame, counted in dots
Dot(p) == p.scanline * 341 + p.cycle

InitPpu ==
    /\ cpu = Emulator_new(LoopRom)
    /\ emu = [cpu_running |-> TRUE]
    /\ ppu = Ppu_new
    /\ apu = Apu_new
    /\ pad = Controller_new
    /\ audio = NoAudio
    /\ cart = NoCart
    /\ last = NoLast
    /\ hist = NoHist

PpuStep ==
    /\ ppu.frame < MaxFrames
    /\ LET r == Ppu_step(ppu)
       IN  /\ ppu' = r.ppu
           /\ last' = [op |-> "Ppu::step", res |-> "Ok", frame_done |-> r.ret,
                       pre |-> ppu]
    /\ hist' = [hist EXCEPT !.dots = @ + 1]
    /\ UNCHANGED <<pad, audio, cart, cpu, emu, apu>>

PpuReset ==
    /\ ppu' = Ppu_reset(ppu)
    /\ last' = [op |-> "Ppu::reset", res |-> "Ok"]
    /\ hist' = [hist EXCEPT !.dots = 0]
    /\ UNCHANGED <<pad, audio, cart, cpu, emu, apu>>

NextPpuTiming == PpuStep \/ PpuReset

SpecPpuTiming == InitPpu /\ [][NextPpuTiming]_vars

-----------------------------------------------------------------------------
(* The PPU's registers.  `status` is a public field that no operation of    *)
(* Ppu sets a bit of, so the register specification draws it.               *)

StatusValues == {\h00, \h80, \hE0}

RegisterValues == {\h00, \h14, \h3F}

ReadAddresses == {\h2000, \h2002, \h2004, \h2007}

WriteAddresses == \h2000 .. \h2007

InitPpuRegs ==
    /\ cpu = Emulator_new(LoopRom)
    /\ emu = [cpu_running |-> TRUE]
    /\ ppu \in {[Ppu_new EXCEPT !.status = s] : s \in StatusValues}
    /\ apu = Apu_new
    /\ pad = Controller_new
    /\ audio = NoAudio
    /\ cart = NoCart
    /\ last = NoLast
    /\ hist = NoHist

PpuReadRegister ==
    /\ last.res # "panic"
    /\ hist.calls < MaxRegOps
    /\ \E address \in ReadAddresses :
          LET r == Ppu_read_register(ppu, address)
          IN  /\ ppu' = r.ppu
              /\ last' = [op |-> "Ppu::read_register", res |-> r.res,
                          address |-> address, value |-> r.value, pre |-> ppu]
              /\ hist' = [hist EXCEPT !.calls = @ + 1,
                                      !.odd = IF address = \h2002 THEN FALSE ELSE @]
    /\ UNCHANGED <<pad, audio, cart, cpu, emu, apu>>

PpuWriteRegister ==
    /\ last.res # "panic"
    /\ hist.calls < MaxRegOps
    /\ \E address \in WriteAddresses, value \in RegisterValues :
          LET r == Ppu_write_register(ppu, address, value)
          IN  /\ ppu' = r.ppu
              /\ last' = [op |-> "Ppu::write_register", res |-> r.res,
                          address |-> address, value |-> value, pre |-> ppu]
              /\ hist' = [hist EXCEPT !.calls = @ + 1,
                                      !.odd = IF address \in {\h2005, \h2006}
                                              THEN ~@ ELSE @]
    /\ UNCHANGED <<pad, audio, cart, cpu, emu, apu>>

\* Ppu::reset between register accesses
PpuRegsReset ==
    /\ last.res # "panic"
    /\ hist.calls < MaxRegOps
    /\ ppu' = Ppu_reset(ppu)
    /\ last' = [op |-> "Ppu::reset", res |-> "Ok", pre |-> ppu]
    /\ hist' = [hist EXCEPT !.calls = @ + 1, !.dots = 0, !.odd = FALSE]
    /\ UNCHANGED <<pad, audio, cart, cpu, emu, apu>>

\* Ppu::step between register accesses
PpuRegsStep ==
    /\ last.res # "panic"
    /\ hist.calls < MaxRegOps
    /\ LET r == Ppu_step(ppu)
       IN  /\ ppu' = r.ppu
           /\ last' = [op |-> "Ppu::step", res |-> "Ok", frame_done |-> r.ret,
                       pre |-> ppu]
    /\ hist' = [hist EXCEPT !.calls = @ + 1, !.dots = @ + 1]
    /\ UNCHANGED <<pad, audio, cart, cpu, emu, apu>>

NextPpuRegs == PpuReadRegister \/ PpuWriteRegister \/ PpuRegsReset \/ PpuRegsStep

SpecPpuRegs == InitPpuRegs /\ [][NextPpuRegs]_vars

-----------------------------------------------------------------------------
(* Properties of the CPU (checked under Spec). *)

Executed == last.op = "step" /\ last.res \in {"Ok(true)", "Ok(false)"}

\* the decode table's row of the opcode the last step() fetched
Fetched == INSTRUCTION_TABLE[last.opcode]

\* the operand address of the instruction the last step() fetched
Operand ==
    get_operand_address([last.pre EXCEPT !.pc = Wrap16(@ + 1)], Fetched).addr

\* C1: every opcode byte either fails with UnknownOpcode, carrying the opcode
\* and the PC it was fetched from and leaving the CPU as it was, or performs
\* its 6502 operation: a step() that reports success has pushed for PHA/PHP,
\* pulled for PLA/PLP, set or cleared the flag for SEC/CLC/SEI/CLI/SED/CLD/CLV,
\* copied the register for the transfers, and stored the register for
\* STA/STX/STY; it is never a success that did none of that.
C1_EveryOpcodeActsOrFails ==
    /\ (last.op = "step" /\ last.res = "UnknownOpcode") =>
          /\ ~INSTRUCTION_TABLE[last.opcode].some
          /\ last.opcode = read_byte(last.pre.memory, last.pre.pc)
          /\ last.pc = last.pre.pc
          /\ cpu = last.pre
    /\ (last.op = "step" /\ last.res = "Ok(true)") =>
          LET m == Fetched.mnemonic
              F == StatusFlag
              pre == last.pre
          IN  /\ Fetched.some
              /\ m \in {"PHA", "PHP"} => cpu.sp = Wrap8(pre.sp + 255)
              /\ m \in {"PLA", "PLP"} => cpu.sp = Wrap8(pre.sp + 1)
              /\ m = "SEC" => get_flag(cpu, F.Carry)
              /\ m = "CLC" => ~get_flag(cpu, F.Carry)
              /\ m = "SEI" => get_flag(cpu, F.InterruptDisable)
              /\ m = "CLI" => ~get_flag(cpu, F.InterruptDisable)
              /\ m = "SED" => get_flag(cpu, F.Decimal)
              /\ m = "CLD" => ~get_flag(cpu, F.Decimal)
              /\ m = "CLV" => ~get_flag(cpu, F.Overflow)
              /\ m = "TAX" => cpu.x = pre.a
              /\ m = "TAY" => cpu.y = pre.a
              /\ m = "TXA" => cpu.a = pre.x
              /\ m = "TYA" => cpu.a = pre.y
              /\ m = "TSX" => cpu.x = pre.sp
              /\ m = "TXS" => cpu.sp = pre.x
              /\ m = "STA" => read_byte(cpu.memory, Operand) = pre.a
              /\ m = "STX" => read_byte(cpu.memory, Operand) = pre.x
              /\ m = "STY" => read_byte(cpu.memory, Operand) = pre.y

\* the address an interrupt entry pushes, and the status byte it pushes
PushedPc == IF last.op = "step" THEN Wrap16(last.pre.pc + 2) ELSE last.pre.pc

PushedP ==
    IF last.op = "step"
    THEN BitOr(last.pre.p, \h30, 8)
    ELSE BitOr(BitAnd(last.pre.p, \hEF, 8), \h20, 8)

Vector == IF last.op = "nmi" THEN \hFFFA ELSE \hFFFE

\* the last call serviced an interrupt: nmi(), irq() with I clear, or a BRK
Serviced ==
    \/ last.op = "nmi"
    \/ last.op = "irq" /\ ~get_flag(last.pre, StatusFlag.InterruptDisable)
    \/ last.op = "step" /\ last.res = "Ok(false)"

\* C3: servicing an NMI, an IRQ or a BRK writes PC's high byte at 0x0100+SP,
\* PC's low byte below it and P below that (B set for BRK, clear for NMI and
\* IRQ, Unused set), leaves SP 3 lower modulo 256, sets I and nothing else in
\* P, and loads PC from the little-endian word at 0xFFFA (NMI) or 0xFFFE (IRQ,
\* BRK).
C3_InterruptEntry ==
    Serviced =>
        LET pre == last.pre
            at(k) == read_byte(cpu.memory, \h0100 + Wrap8(pre.sp + 256 - k))
        IN  /\ at(0) = PushedPc \div 256
            /\ at(1) = PushedPc % 256
            /\ at(2) = PushedP
            /\ cpu.sp = Wrap8(pre.sp + 253)
            /\ cpu.p = BitOr(pre.p, StatusFlag.InterruptDisable, 8)
            /\ cpu.pc = read_byte(pre.memory, Vector)
                        + 256 * read_byte(pre.memory, Vector + 1)

\* an NMI serviced with SP = 0x00, so that the three pushes wrap to 0xFD, and
\* with a return address whose two bytes differ
C3_Witness ==
    /\ last.op = "nmi"
    /\ last.pre.sp = 0
    /\ cpu.sp = \hFD
    /\ last.pre.pc \div 256 # last.pre.pc % 256

\* C4: irq() and nmi() only queue the interrupt: when the call returns PC, SP,
\* P and the stack (all of memory) are as they were before it.
C4_InterruptsOnlyQueue ==
    last.op \in {"irq", "nmi"} =>
        /\ cpu.pc = last.pre.pc
        /\ cpu.sp = last.pre.sp
        /\ cpu.p = last.pre.p
        /\ cpu.memory = last.pre.memory

\* the instructions that pay for a page crossing: loads, compares and logic
PageCrossMnemonics ==
    {"LDA", "LDX", "LDY", "CMP", "AND", "ORA", "EOR", "ADC", "SBC"}

\* the indexed address before the index is added
IndexBase ==
    LET pre == last.pre
        b == read_byte(pre.memory, Wrap16(pre.pc + 1))
    IN  IF Fetched.addressing_mode = "IndirectY"
        THEN read_byte(pre.memory, b) + 256 * read_byte(pre.memory, Wrap8(b + 1))
        ELSE b + 256 * read_byte(pre.memory, Wrap16(pre.pc + 2))

BranchTaken ==
    LET m == Fetched.mnemonic
        F == StatusFlag
        pre == last.pre
    IN  \/ m = "BPL" /\ ~get_flag(pre, F.Negative)
        \/ m = "BMI" /\ get_flag(pre, F.Negative)
        \/ m = "BVC" /\ ~get_flag(pre, F.Overflow)
        \/ m = "BVS" /\ get_flag(pre, F.Overflow)
        \/ m = "BCC" /\ ~get_flag(pre, F.Carry)
        \/ m = "BCS" /\ get_flag(pre, F.Carry)
        \/ m = "BNE" /\ ~get_flag(pre, F.Zero)
        \/ m = "BEQ" /\ get_flag(pre, F.Zero)

\* the cycles the instruction the last step() fetched costs
CycleCost ==
    Fetched.cycles
    + (IF /\ Fetched.mnemonic \in PageCrossMnemonics
          /\ Fetched.addressing_mode \in {"AbsoluteX", "AbsoluteY", "IndirectY"}
          /\ page_crossed(IndexBase, Operand)
       THEN 1 ELSE 0)
    + (IF BranchTaken
       THEN 1 + (IF page_crossed(Wrap16(last.pre.pc + 2), Operand) THEN 1 ELSE 0)
       ELSE 0)

\* C8: a step() that executes an instruction (BRK included) adds to the cycle
\* counter the table's base cycles, plus 1 for a load, compare or logic
\* instruction whose AbsoluteX, AbsoluteY or IndirectY address crosses a page,
\* plus the branch penalties.
C8_CycleCost ==
    Executed => cpu.cycles = last.pre.cycles + CycleCost

-----------------------------------------------------------------------------
(* Properties of the orchestrator (checked under SpecEmu). *)

\* the dots the PPU has been stepped through since power-on
PpuSteps == ppu.frame * DotsPerFrame + Dot(ppu)

\* C2: as long as the CPU has not been reset, the PPU has been stepped 3 times
\* for every CPU cycle counted and the APU once.
C2_PpuApuFollowCpu ==
    hist.calls = 0 => /\ PpuSteps = 3 * cpu.cycles
                      /\ apu.cycle = cpu.cycles

\* scanline 241, dot 1, counted in dots from the start of the frame
VBlankDot == 241 * 341 + 1

\* the longest instruction of the decode table, in cycles
LongestInstruction ==
    CHOOSE n \in {r[4] : r \in InstructionRows} :
        \A r \in InstructionRows : r[4] <= n

\* C5: with bit 7 of PPUCTRL (the byte the CPU sees at 0x2000) set, and no
\* reset or interrupt key in the run, once the CPU has run the cycles that
\* take the PPU to scanline 241, dot 1 and one more instruction, an NMI has
\* been serviced.
C5_NmiOnVBlank ==
    (/\ hist.calls = 0
     /\ read_byte(cpu.memory, \h2000) >= 128
     /\ 3 * cpu.cycles >= VBlankDot + 3 * LongestInstruction)
    => hist.nmis > 0

-----------------------------------------------------------------------------
(* Properties of reset (checked under SpecReset). *)

Channels(a) == {a.pulse1, a.pulse2, a.triangle, a.noise, a.dmc}

\* C7: after a reset PC is the little-endian word at 0xFFFC, SP = 0xFD,
\* P = I | Unused, A = X = Y = 0, the cycle counter is 0, no APU channel is
\* enabled and the frame counters are 0.
C7_Reset ==
    last.op = "Emulator::reset" =>
        /\ cpu.pc = read_byte(cpu.memory, \hFFFC)
                    + 256 * read_byte(cpu.memory, \hFFFD)
        /\ cpu.sp = \hFD
        /\ cpu.p = \h24
        /\ cpu.a = 0 /\ cpu.x = 0 /\ cpu.y = 0
        /\ cpu.cycles = 0
        /\ \A ch \in Channels(apu) : ~ch.enabled
        /\ apu.frame_counter = 0 /\ apu.frame_sequence = 0

-----------------------------------------------------------------------------
(* Properties of the PPU's timing (checked under SpecPpuTiming). *)

\* C6: the step that takes the PPU to scanline 241, dot 1 leaves VBlank
\* (bit 7 of status) set, and the step that takes it to scanline 261, dot 1
\* leaves VBlank, sprite-0-hit and sprite-overflow (bits 7, 6, 5) clear.
C6_VBlankFlag ==
    last.op = "Ppu::step" =>
        /\ (ppu.scanline = 241 /\ ppu.cycle = 1) => ppu.status >= 128
        /\ (ppu.scanline = 261 /\ ppu.cycle = 1) => ppu.status < 32

\* C9: the dot is in 0..340 and the scanline in 0..261; a step moves
\* (scanline, dot) to its successor modulo (262, 341); it signals a completed
\* frame exactly when it started at (261, 340); and the steps made since reset
\* are 89342 for each frame counted plus the place in the frame.
C9_PpuPosition ==
    /\ ppu.cycle \in 0..340
    /\ ppu.scanline \in 0..261
    /\ PpuSteps = hist.dots
    /\ last.op = "Ppu::step" =>
          /\ Dot(ppu) = (Dot(last.pre) + 1) % DotsPerFrame
          /\ last.frame_done <=> (last.pre.scanline = 261 /\ last.pre.cycle = 340)
          /\ last.frame_done <=> (ppu.scanline = 0 /\ ppu.cycle = 0)
          /\ last.frame_done <=> (ppu.frame = last.pre.frame + 1)

\* the step from (261, 340) to (0, 0), the 89342nd, has signalled the frame
C9_Witness ==
    /\ last.op = "Ppu::step"
    /\ last.frame_done
    /\ last.pre.scanline = 261 /\ last.pre.cycle = 340
    /\ ppu.scanline = 0 /\ ppu.cycle = 0
    /\ hist.dots = 89342

-----------------------------------------------------------------------------
(* Properties of the PPU's registers (checked under SpecPpuRegs). *)

StatusRead(l) == l.op = "Ppu::read_register" /\ l.address = \h2002

\* C10: a read of 0x2002 returns status as it was before the read, and leaves
\* status with bit 7 clear and its other bits kept, and w clear; a read of
\* 0x2002 that directly follows another returns a byte with bit 7 clear.
C10_StatusRead ==
    [][StatusRead(last') =>
          /\ last'.res = "Ok"
          /\ last'.value = ppu.status
          /\ ppu'.status = BitAnd(ppu.status, \h7F, 8)
          /\ ~ppu'.w
          /\ StatusRead(last) => last'.value < 128]_vars

\* a read of 0x2002 that returned VBlank = 1 and cleared both VBlank and a
\* set w
C10_Witness ==
    /\ StatusRead(last)
    /\ last.value >= 128
    /\ last.pre.w
    /\ ppu.status < 128
    /\ ~ppu.w

\* an access of the register at `address` by the last call
Access(op, address) ==
    /\ last.op = op
    /\ last.address = address

\* C11: w is set exactly when the writes to 0x2005/0x2006 made since the last
\* read of 0x2002 or reset are odd in number; a write to 0x2006 made while w
\* is set leaves v = t, and any other call but an access of 0x2007 or a reset
\* leaves v as it was.
C11_WriteToggle ==
    /\ ppu.w = hist.odd
    /\ last.op \in {"Ppu::read_register", "Ppu::write_register", "Ppu::step"} =>
          IF Access("Ppu::write_register", \h2006) /\ last.pre.w
          THEN ppu.v = ppu.t
          ELSE \/ last.op # "Ppu::step" /\ last.address = \h2007
               \/ ppu.v = last.pre.v

\* the second write of a 0x2005, 0x2006 pair by which v took a new value from t
C11_Witness ==
    /\ Access("Ppu::write_register", \h2006)
    /\ last.pre.w
    /\ ~ppu.w
    /\ ppu.v = ppu.t
    /\ ppu.v # last.pre.v
    /\ ppu.x # 0

\* C12: a read or a write of 0x2007 that succeeds leaves v higher by 1 when
\* bit 2 of PPUCTRL is clear and by 32 when it is set, wherever v points.
C12_DataIncrement ==
    (/\ last.op \in {"Ppu::read_register", "Ppu::write_register"}
     /\ last.address = \h2007
     /\ last.res = "Ok")
    => ppu.v = last.pre.v + (IF get_bit(last.pre.ctrl, 2) THEN 32 ELSE 1)

\* C13: bit 15 of v and of t is zero.
C13_Bit15Clear ==
    /\ ppu.v < 32768
    /\ ppu.t < 32768

\* v holding bit 14, the highest bit a register write can set, which it took
\* from t
C13_Witness ==
    /\ ppu.v >= 16384
    /\ ppu.v = ppu.t
    /\ Access("Ppu::write_register", \h2006)

PaletteMirrors == {\h3F10, \h3F14, \h3F18, \h3F1C}

\* C14: after a write of PPUDATA to 0x3F10/14/18/1C the PPU reads the value
\* written at 0x3F00/04/08/0C, and after a write to 0x3F00/04/08/0C it reads it
\* at 0x3F10/14/18/1C.
C14_PaletteAlias ==
    (Access("Ppu::write_register", \h2007) /\ last.res = "Ok") =>
        /\ last.pre.v \in PaletteMirrors =>
              Ppu_read_memory(ppu, last.pre.v - 16).value = last.value
        /\ last.pre.v + 16 \in PaletteMirrors =>
              Ppu_read_memory(ppu, last.pre.v + 16).value = last.value

-----------------------------------------------------------------------------
(* Mapper 001 (MMC1): the serial port, the PRG window, reset.               *)

\* Option<u32>
Some(n) == [some |-> TRUE, value |-> n]

Mapper001_new(prg_banks, chr_banks) ==
    [kind |-> "Mapper001", prg_banks |-> prg_banks, chr_banks |-> chr_banks,
     mirror_mode |-> "Horizontal", shift_register |-> 0, shift_count |-> 0,
     control_register |-> \h0C, chr_bank_0 |-> 0, chr_bank_1 |-> 0,
     prg_bank |-> 0, prg_ram_enabled |-> TRUE]

\* the match on the address of the fifth write
Mapper001_commit(m, address) ==
    LET sr == m.shift_register
    IN  CASE address \in \h8000 .. \h9FFF ->
               [m EXCEPT !.control_register = sr,
                         !.mirror_mode = IF sr % 4 = 2 THEN "Vertical"
                                                       ELSE "Horizontal"]
          [] address \in \hA000 .. \hBFFF -> [m EXCEPT !.chr_bank_0 = sr]
          [] address \in \hC000 .. \hDFFF -> [m EXCEPT !.chr_bank_1 = sr]
          [] address \in \hE000 .. \hFFFF ->
               [m EXCEPT !.prg_bank = BitAnd(sr, \h0F, 8),
                         !.prg_ram_enabled = (BitAnd(sr, \h10, 8) = 0)]
          [] OTHER -> m

\* write_register with the bit shifted in at the bottom (the first written
\* bit ends most significant)
Mapper001_write_register_msb_first(m, address, value) ==
    IF BitAnd(value, \h80, 8) # 0
    THEN [m EXCEPT !.shift_register = 0, !.shift_count = 0,
                   !.control_register = BitOr(@, \h0C, 8)]
    ELSE LET s == [m EXCEPT !.shift_register = ((@ * 2) % 32) + (value % 2),
                            !.shift_count = @ + 1]
         IN  IF s.shift_count = 5
             THEN [Mapper001_commit(s, address) EXCEPT !.shift_register = 0,
                                                       !.shift_count = 0]
             ELSE s

Mapper001_write_register(m, address, value) ==
    IF BitAnd(value, \h80, 8) # 0
    THEN [m EXCEPT !.shift_register = 0, !.shift_count = 0,
                   !.control_register = BitOr(@, \h0C, 8)]
    ELSE LET s == [m EXCEPT !.shift_register =
                                BitOr(@ \div 2, BitAnd(value, \h01, 8) * 16, 8),
                            !.shift_count = @ + 1]
         IN  IF s.shift_count = 5
             THEN [Mapper001_commit(s, address) EXCEPT !.shift_register = 0,
                                                       !.shift_count = 0]
             ELSE s

\* u16 arithmetic of the window: the sum as a u16, and whether a step of it
\* left the type (the u8 subtraction `prg_banks - 1` included)
Window(offset, bank, underflow) ==
    LET raw == offset + (bank % 256) * \h4000
    IN  [res |-> "Ok", value |-> Some(raw % 65536),
         overflow |-> underflow \/ raw > 65535]

Mapper001_map_prg_read(m, address) ==
    CASE address \in \h6000 .. \h7FFF ->
           [res |-> "Ok", overflow |-> FALSE,
            value |-> IF m.prg_ram_enabled THEN Some(address - \h6000) ELSE None]
      [] address \in \h8000 .. \hFFFF ->
           LET prg_mode == (m.control_register \div 4) % 4
           IN  CASE prg_mode \in {0, 1} ->
                      Window(address - \h8000, BitAnd(m.prg_bank, \h0E, 8) \div 2,
                             FALSE)
                 [] prg_mode = 2 ->
                      IF address < \hC000
                      THEN Window(address - \h8000, 0, FALSE)
                      ELSE Window(address - \hC000, m.prg_bank, FALSE)
                 [] prg_mode = 3 ->
                      IF address < \hC000
                      THEN Window(address - \h8000, m.prg_bank, FALSE)
                      ELSE Window(address - \hC000, m.prg_banks - 1,
                                  m.prg_banks = 0)
      [] OTHER -> [res |-> "Ok", overflow |-> FALSE, value |-> None]

Mapper001_map_prg_write(m, address, value) ==
    CASE address \in \h6000 .. \h7FFF ->
           [mapper |-> m, res |-> "Ok",
            value |-> IF m.prg_ram_enabled THEN Some(address - \h6000) ELSE None]
      [] address \in \h8000 .. \hFFFF ->
           [mapper |-> Mapper001_write_register(m, address, value),
            res |-> "Ok", value |-> None]
      [] OTHER -> [mapper |-> m, res |-> "Ok", value |-> None]

Mapper001_reset(m) ==
    [m EXCEPT !.shift_register = 0, !.shift_count = 0,
              !.control_register = \h0C, !.chr_bank_0 = 0, !.chr_bank_1 = 0,
              !.prg_bank = 0, !.prg_ram_enabled = TRUE,
              !.mirror_mode = "Horizontal"]

-----------------------------------------------------------------------------
(* An MMC1 driven through the Mapper trait: PRG writes, PRG reads, reset.   *)

\* No PRG write or reset is made once this many have been made.
MaxMapperWrites == 6

\* cartridges of 2 and of 8 PRG banks of 16 KiB
PrgBankCounts == {2, 8}

MapperWriteAddresses == {\h6000, \h8000, \hA000, \hC000, \hFFFF}

MapperReadAddresses == {\h6000, \h8000, \hBFFF, \hC000, \hFFFF}

MapperValues == {\h00, \h03, \h80}

\* hist.bits: bit 0 of the register writes with bit 7 clear made since the
\* last commit, bit-7 write or reset
InitMmc1 ==
    /\ cpu = Cpu_new(None)
    /\ emu = [cpu_running |-> TRUE]
    /\ ppu = Ppu_new
    /\ apu = Apu_new
    /\ pad = Controller_new
    /\ audio = NoAudio
    /\ cart \in {[NoCart EXCEPT !.mapper = Mapper001_new(n, 1)] : n \in PrgBankCounts}
    /\ last = NoLast
    /\ hist = [calls |-> 0, bits |-> <<>>]

MapPrgWrite ==
    /\ last.res # "panic"
    /\ hist.calls < MaxMapperWrites
    /\ \E address \in MapperWriteAddresses, value \in MapperValues :
          LET r == Mapper001_map_prg_write(cart.mapper, address, value)
          IN  /\ cart' = [cart EXCEPT !.mapper = r.mapper]
              /\ last' = [op |-> "Mapper001::map_prg_write", res |-> r.res,
                          address |-> address, value |-> value, ret |-> r.value,
                          pre |-> cart.mapper, bits |-> hist.bits]
              /\ hist' = [calls |-> hist.calls + 1,
                          bits |-> IF address < \h8000 THEN hist.bits
                                   ELSE IF value >= 128 \/ Len(hist.bits) = 4
                                        THEN <<>>
                                        ELSE Append(hist.bits, value % 2)]
    /\ UNCHANGED <<pad, audio, cpu, emu, ppu, apu>>

\* overflow checks on: the call panics; off: the offset wraps
MapPrgRead ==
    /\ last.res # "panic"
    /\ \E address \in MapperReadAddresses :
          LET r == Mapper001_map_prg_read(cart.mapper, address)
          IN  \E res \in (IF r.overflow THEN {"Ok", "panic"} ELSE {"Ok"}) :
                 last' = [op |-> "Mapper001::map_prg_read", res |-> res,
                          address |-> address,
                          ret |-> IF res = "Ok" THEN r.value ELSE None,
                          pre |-> cart.mapper, bits |-> hist.bits]
    /\ UNCHANGED <<pad, audio, cpu, emu, ppu, apu, cart, hist>>

MapperReset ==
    /\ last.res # "panic"
    /\ hist.calls < MaxMapperWrites
    /\ cart' = [cart EXCEPT !.mapper = Mapper001_reset(@)]
    /\ last' = [op |-> "Mapper001::reset", res |-> "Ok", pre |-> cart.mapper,
                bits |-> hist.bits]
    /\ hist' = [calls |-> hist.calls + 1, bits |-> <<>>]
    /\ UNCHANGED <<pad, audio, cpu, emu, ppu, apu>>

NextMmc1 == MapPrgWrite \/ MapPrgRead \/ MapperReset

SpecMmc1 == InitMmc1 /\ [][NextMmc1]_vars

-----------------------------------------------------------------------------
(* The MMC1 serial port. *)

\* the four registers of the port, in the order of bits 13-14 of the address;
\* the PRG register keeps its bit 4 as the PRG-RAM disable
Registers(m) ==
    <<m.control_register, m.chr_bank_0, m.chr_bank_1,
      m.prg_bank + (IF m.prg_ram_enabled THEN 0 ELSE 16)>>

\* the value of a sequence of bits, the first least significant
RECURSIVE Serial(_)
Serial(bits) ==
    IF bits = <<>> THEN 0 ELSE Head(bits) + 2 * Serial(Tail(bits))

RegisterWrite == last.op = "Mapper001::map_prg_write" /\ last.address >= \h8000

\* C15: a register write with bit 7 set changes no register but control, which
\* gets 0x0C ORed in; a write with bit 7 clear that is not the fifth since the
\* last commit, bit-7 write or reset changes no register; the fifth puts the
\* five bits 0 written, the first least significant, in the register that
\* bits 13-14 of its address select, and changes no other.
C15_SerialCommit ==
    RegisterWrite =>
        LET old == Registers(last.pre)
            new == Registers(cart.mapper)
            target == ((last.address \div 8192) % 4) + 1
        IN  IF last.value >= 128
            THEN new = [old EXCEPT ![1] = BitOr(@, \h0C, 8)]
            ELSE IF Len(last.bits) < 4
            THEN new = old
            ELSE new = [old EXCEPT
                           ![target] = Serial(Append(last.bits, last.value % 2))]

\* the fifth write, to 0xFFFF, of the bits 0,1,0,0,1: PRG bank 2, PRG RAM off
C15_Witness ==
    /\ RegisterWrite
    /\ last.address = \hFFFF
    /\ last.bits = <<0, 1, 0, 0>>
    /\ last.value = \h03
    /\ cart.mapper.prg_bank = 2
    /\ ~cart.mapper.prg_ram_enabled
    /\ last.pre.prg_bank = 0

-----------------------------------------------------------------------------
(* The PRG window of an MMC1 whose control and PRG bank registers have been *)
(* committed through the serial port.                                       *)

ControlValues == 0 .. 31

PrgBankValues == 0 .. 31

\* five writes to `address` of the bits of `value`, the least significant first
RECURSIVE WriteSerial(_, _, _, _)
WriteSerial(m, address, value, n) ==
    IF n = 0 THEN m
    ELSE WriteSerial(Mapper001_map_prg_write(m, address, value % 2).mapper,
                     address, value \div 2, n - 1)

InitMmc1Read ==
    /\ cpu = Cpu_new(None)
    /\ emu = [cpu_running |-> TRUE]
    /\ ppu = Ppu_new
    /\ apu = Apu_new
    /\ pad = Controller_new
    /\ audio = NoAudio
    /\ cart \in {[NoCart EXCEPT
                     !.mapper = WriteSerial(WriteSerial(Mapper001_new(n, 1),
                                                        \h8000, c, 5),
                                            \hE000, b, 5)] :
                    n \in PrgBankCounts, c \in ControlValues, b \in PrgBankValues}
    /\ last = NoLast
    /\ hist = [calls |-> 0, bits |-> <<>>]

NextMmc1Read == MapPrgRead

SpecMmc1Read == InitMmc1Read /\ [][NextMmc1Read]_vars

\* the offset into PRG ROM of address a under a PRG mode, a PRG bank number
\* and a number of 16-KiB banks
PrgOffset(mode, N, banks, a) ==
    CASE mode \in {0, 1} -> (N \div 2) * 32768 + (a - \h8000)
      [] mode = 2 -> IF a < \hC000 THEN a - \h8000
                                   ELSE N * 16384 + (a - \hC000)
      [] mode = 3 -> IF a < \hC000 THEN N * 16384 + (a - \h8000)
                                   ELSE (banks - 1) * 16384 + (a - \hC000)

\* C16: map_prg_read of an address in 0x8000-0xFFFF returns the offset that
\* the PRG mode (control bits 2-3), the committed PRG bank number and the
\* number of banks give: the 32-KiB bank N>>1 in modes 0 and 1, bank 0 and
\* the 16-KiB bank N in mode 2, the 16-KiB bank N and the last bank in mode 3.
C16_PrgWindow ==
    (last.op = "Mapper001::map_prg_read" /\ last.address >= \h8000) =>
        /\ last.res = "Ok"
        /\ last.ret = Some(PrgOffset((last.pre.control_register \div 4) % 4,
                                     last.pre.prg_bank, last.pre.prg_banks,
                                     last.address))

-----------------------------------------------------------------------------
(* iNES files, Rom::new, create_mapper.                                     *)
(* A file is its length, its first bytes (16 at most) and the bytes that    *)
(* follow header and trainer where it is long enough to hold them.          *)

Signature == <<\h4E, \h45, \h53, \h1A>>

\* parse without the test of the signature
InesHeader_parse_any_signature(data) ==
    IF data.len < 16
    THEN [res |-> "FileTooSmall", expected |-> 16, actual |-> data.len]
    ELSE [res |-> "Ok",
          header |-> [prg_rom_size |-> data.head[5], chr_rom_size |-> data.head[6],
                      flags6 |-> data.head[7], flags7 |-> data.head[8],
                      prg_ram_size |-> data.head[9]]]

InesHeader_parse(data) ==
    IF data.len < 16
    THEN [res |-> "FileTooSmall", expected |-> 16, actual |-> data.len]
    ELSE IF SubSeq(data.head, 1, 4) # Signature
    THEN [res |-> "InvalidHeader"]
    ELSE [res |-> "Ok",
          header |-> [prg_rom_size |-> data.head[5], chr_rom_size |-> data.head[6],
                      flags6 |-> data.head[7], flags7 |-> data.head[8],
                      prg_ram_size |-> data.head[9]]]

get_mapper_number(h) == BitOr(BitAnd(h.flags7, \hF0, 8), h.flags6 \div 16, 8)

get_mirror_mode(h) ==
    IF BitAnd(h.flags6, \h08, 8) # 0 THEN "FourScreen"
    ELSE IF BitAnd(h.flags6, \h01, 8) # 0 THEN "Vertical"
    ELSE "Horizontal"

get_trainer_size(h) == IF BitAnd(h.flags6, \h04, 8) # 0 THEN 512 ELSE 0

get_prg_rom_size_bytes(h) == h.prg_rom_size * 16 * 1024

get_chr_rom_size_bytes(h) == h.chr_rom_size * 8 * 1024

get_prg_ram_size_bytes(h) ==
    IF h.prg_ram_size = 0 THEN 8 * 1024 ELSE h.prg_ram_size * 8 * 1024

\* rom_data[prg_rom_start .. prg_rom_start + prg_rom_size]
Slice(bytes, size) == [k \in {j \in DOMAIN bytes : j < size} |-> bytes[k]]

Rom_new(rom_data) ==
    LET p == InesHeader_parse(rom_data)
    IN  IF p.res # "Ok" THEN [res |-> p.res, rom |-> None]
        ELSE
        LET header == p.header
            prg_rom_size == get_prg_rom_size_bytes(header)
            chr_rom_size == get_chr_rom_size_bytes(header)
            prg_rom_start == 16 + get_trainer_size(header)
            chr_rom_start == prg_rom_start + prg_rom_size
            expected_size == chr_rom_start + chr_rom_size
        IN  IF rom_data.len < expected_size
            THEN [res |-> "FileTooSmall", rom |-> None]
            ELSE IF prg_rom_size = 0
            THEN [res |-> "MissingData", rom |-> None]
            ELSE [res |-> "Ok",
                  rom |-> [len |-> prg_rom_size,
                           prg_rom |-> Slice(rom_data.prg, prg_rom_size),
                           chr_len |-> IF chr_rom_size > 0 THEN chr_rom_size
                                                           ELSE 8 * 1024,
                           mirror_mode |-> get_mirror_mode(header),
                           mapper |-> get_mapper_number(header),
                           prg_ram_size |-> get_prg_ram_size_bytes(header)]]

Mapper000_new(prg_banks, chr_banks) ==
    [kind |-> "Mapper000", prg_banks |-> prg_banks, chr_banks |-> chr_banks,
     mirror_mode |-> "Horizontal"]

\* an unsupported number gets a warning on stderr and an NROM mapper
create_mapper(mapper_number, prg_banks, chr_banks) ==
    CASE mapper_number = 0 -> Mapper000_new(prg_banks, chr_banks)
      [] mapper_number = 1 -> Mapper001_new(prg_banks, chr_banks)
      [] OTHER -> Mapper000_new(prg_banks, chr_banks)

\* the files tried
Signatures == {Signature, <<\h4E, \h45, \h53, \h00>>, <<\h00, \h45, \h53, \h1A>>}

PrgSizes == {0, 1, 2}

ChrSizes == {0, 1}

\* plain; trainer; mapper 1; mapper 2 with vertical mirroring
Flags6 == {\h00, \h04, \h10, \h21}

\* mapper high nibble 0 and 4
Flags7 == {\h00, \h40}

Headers ==
    {sig \o <<prg, chr, f6, f7, 0, 0, 0, 0, 0, 0, 0, 0>> :
        sig \in Signatures, prg \in PrgSizes, chr \in ChrSizes,
        f6 \in Flags6, f7 \in Flags7}

\* 16 + trainer + PRG + CHR of a 16-byte header
FileSize(head) ==
    16 + (IF (head[7] \div 4) % 2 = 1 THEN 512 ELSE 0)
       + head[5] * 16384 + head[6] * 8192

Lengths(head) == {0, 4, 15, 16, FileSize(head) - 1, FileSize(head), FileSize(head) + 1}

Files ==
    UNION {{[head |-> SubSeq(h, 1, IF n < 16 THEN n ELSE 16), len |-> n,
             prg |-> LoopRom.prg_rom] : n \in Lengths(h)} : h \in Headers}

-----------------------------------------------------------------------------
(* Loading: Emulator::new on a file, a mapper made for the Rom, the CPU run. *)

InitLoad ==
    /\ cpu = Cpu_new(None)
    /\ emu = [cpu_running |-> FALSE]
    /\ ppu = Ppu_new
    /\ apu = Apu_new
    /\ pad = Controller_new
    /\ audio = NoAudio
    /\ cart = NoCart
    /\ last = NoLast
    /\ hist = NoHist

\* Emulator::new with a ROM path: Rom::new, then load_rom and reset
LoadFile ==
    /\ cart.res = "new"
    /\ \E file \in Files :
          LET r == Rom_new(file)
          IN  /\ cart' = [rom |-> r.rom, mapper |-> None, file |-> file,
                          res |-> r.res]
              /\ cpu' = IF r.res = "Ok" THEN Emulator_new(r.rom) ELSE cpu
              /\ emu' = [cpu_running |-> r.res = "Ok"]
              /\ last' = [op |-> "Emulator::new", res |-> r.res]
    /\ UNCHANGED <<pad, audio, ppu, apu, hist>>

\* create_mapper with the numbers of the loaded Rom
CreateMapper ==
    /\ cart.res = "Ok"
    /\ cart.mapper = None
    /\ cart' = [cart EXCEPT !.mapper =
                   create_mapper(cart.rom.mapper, (cart.rom.len \div 16384) % 256,
                                 cart.file.head[6])]
    /\ last' = [op |-> "create_mapper", res |-> "Ok"]
    /\ UNCHANGED <<pad, audio, cpu, emu, ppu, apu, hist>>

NextLoad == LoadFile \/ CreateMapper \/ ResetStep

SpecLoad == InitLoad /\ [][NextLoad]_vars

Loaded == cart.res # "new"

ValidHeader == cart.file.len >= 16 /\ SubSeq(cart.file.head, 1, 4) = Signature

\* the mapper number of the header: low nibble in byte 6, high nibble in byte 7
MapperNumber == (cart.file.head[8] \div 16) * 16 + cart.file.head[7] \div 16

\* C17: a complete file with a PRG ROM whose mapper number is neither 0 nor 1
\* is refused with UnsupportedMapper; no mapper is made for it and the CPU
\* executes nothing of it.
C17_UnsupportedMapper ==
    (/\ Loaded
     /\ ValidHeader
     /\ cart.file.len >= FileSize(cart.file.head)
     /\ cart.file.head[5] > 0
     /\ MapperNumber \notin {0, 1}) =>
        /\ cart.res = "UnsupportedMapper"
        /\ cart.rom = None
        /\ cart.mapper = None
        /\ ~emu.cpu_running
        /\ cpu.instruction_count = 0

\* C18 as stated: a file of four bytes or more that does not start with the
\* signature is refused with InvalidHeader; a file with a valid 16-byte header and fewer
\* bytes than 16 + trainer + PRG + CHR is refused with FileTooSmall; neither
\* gives a Rom.
C18_Rejection ==
    Loaded =>
        /\ (cart.file.len >= 4 /\ SubSeq(cart.file.head, 1, 4) # Signature) =>
              cart.res = "InvalidHeader" /\ cart.rom = None
        /\ (ValidHeader /\ cart.file.len < FileSize(cart.file.head)) =>
              cart.res = "FileTooSmall" /\ cart.rom = None

\* C18 as the code has it: a file of 16 bytes or more that does not start
\* with the signature is refused with InvalidHeader; a file of fewer than 16
\* bytes, and a file with a valid header and fewer bytes than 16 + trainer +
\* PRG + CHR, is refused with FileTooSmall; none of them gives a Rom.
C18_RejectionBySizeFirst ==
    Loaded =>
        /\ (cart.file.len >= 16 /\ SubSeq(cart.file.head, 1, 4) # Signature) =>
              cart.res = "InvalidHeader" /\ cart.rom = None
        /\ cart.file.len < 16 =>
              cart.res = "FileTooSmall" /\ cart.rom = None
        /\ (ValidHeader /\ cart.file.len < FileSize(cart.file.head)) =>
              cart.res = "FileTooSmall" /\ cart.rom = None

\* a file with all the bytes its header asks for and a wrong signature, refused
C18_Witness ==
    /\ Loaded
    /\ cart.file.len = 16 + 16384
    /\ cart.file.head[5] = 1
    /\ SubSeq(cart.file.head, 1, 4) # Signature
    /\ cart.res = "InvalidHeader"
    /\ ~emu.cpu_running

-----------------------------------------------------------------------------
(* The CPU bus: Cpu::write_byte and Cpu::read_byte called from outside, on  *)
(* a Cpu with no cartridge and on one with a 32-KiB cartridge.              *)

\* No access is made once this many have been made.
MaxBusOps == 3

BusAddresses ==
    {\h0000, \h0800, \h1FFF, \h2000, \h4000, \h4014, \h4017, \h4018, \h401F,
     \h4020, \h5FFF, \h6000, \h7FFF, \h8000, \hFFFF}

BusValues == {\h00, \h02, \h42}

InitBus ==
    /\ cpu \in {Cpu_new(None), Emulator_new(LoopRom)}
    /\ emu = [cpu_running |-> TRUE]
    /\ ppu = Ppu_new
    /\ apu = Apu_new
    /\ pad = Controller_new
    /\ audio = NoAudio
    /\ cart = NoCart
    /\ last = NoLast
    /\ hist = NoHist

BusWrite ==
    /\ hist.calls < MaxBusOps
    /\ \E address \in BusAddresses, value \in BusValues :
          /\ cpu' = [cpu EXCEPT !.memory = write_byte(@, address, value)]
          /\ last' = [op |-> "write_byte", res |-> "Ok", address |-> address,
                      value |-> value, pre |-> cpu]
    /\ hist' = [hist EXCEPT !.calls = @ + 1]
    /\ UNCHANGED <<pad, audio, emu, ppu, apu, cart>>

\* last.wrote: the byte that the call before this one wrote to the address read
BusRead ==
    /\ hist.calls < MaxBusOps
    /\ \E address \in BusAddresses :
          last' = [op |-> "read_byte", res |-> "Ok", address |-> address,
                   value |-> read_byte(cpu.memory, address),
                   wrote |-> IF last.op = "write_byte" /\ last.address = address
                             THEN Some(last.value) ELSE None,
                   pre |-> cpu]
    /\ hist' = [hist EXCEPT !.calls = @ + 1]
    /\ UNCHANGED <<pad, audio, cpu, emu, ppu, apu, cart>>

NextBus == BusWrite \/ BusRead

SpecBus == InitBus /\ [][NextBus]_vars

ReadAfterWrite == last.op = "read_byte" /\ last.wrote # None

\* C19 as stated: a read of an address outside 0x2000-0x3FFF and
\* 0x4000-0x4017 right after a write of v to it returns v.
C19_ReadAfterWrite ==
    (ReadAfterWrite /\ last.address \notin \h2000 .. \h4017) =>
        last.value = last.wrote.value

\* C19 as the code has it: a read of an address in the internal RAM
\* (0x0000-0x1FFF), the APU test registers (0x4018-0x401F) or the PRG RAM
\* (0x6000-0x7FFF) right after a write of v to it returns v.
C19_ReadAfterWriteInRam ==
    (/\ ReadAfterWrite
     /\ \/ last.address \in \h0000 .. \h1FFF
        \/ last.address \in \h4018 .. \h401F
        \/ last.address \in \h6000 .. \h7FFF) =>
        last.value = last.wrote.value

\* 0x42 read back from a mirror of the internal RAM
C19_Witness ==
    /\ ReadAfterWrite
    /\ last.address = \h0800
    /\ last.wrote.value = \h42
    /\ last.value = \h42
    /\ Get(cpu.memory.internal_ram, 0) = \h42

\* C20: after a write of v to 0x4014 the OAM holds, from OAMADDR on, the 256
\* bytes that were at v * 256 on the bus, and the CPU has been charged 513 or
\* 514 cycles.
C20_OamDma ==
    (last.op = "write_byte" /\ last.address = \h4014) =>
        /\ \A i \in 0 .. 255 :
              Get(ppu.oam, (ppu.oam_addr + i) % 256)
                 = read_byte(last.pre.memory, last.value * 256 + i)
        /\ cpu.cycles - last.pre.cycles \in {513, 514}

-----------------------------------------------------------------------------
(* The controller: buttons set by the host, strobe written and bits read by *)
(* the program.                                                             *)

\* set_button is not called once this many calls have been made.
MaxPresses == 3

StrobeValues == {\h00, \h01}

\* hist.latch: since the last write that took the strobe from high to low and
\* while the strobe is low: the buttons down at that write, the number of
\* reads made since (counted up to 9), and whether set_button was called since
NoLatch == [some |-> FALSE]

Down(c) == <<c.a, c.b, c.select, c.start, c.up, c.down, c.left, c.right>>

InitPad ==
    /\ cpu = Cpu_new(None)
    /\ emu = [cpu_running |-> TRUE]
    /\ ppu = Ppu_new
    /\ apu = Apu_new
    /\ cart = NoCart
    /\ pad = Controller_new
    /\ audio = NoAudio
    /\ last = NoLast
    /\ hist = [calls |-> 0, latch |-> NoLatch]

PadSetButton ==
    /\ hist.calls < MaxPresses
    /\ \E i \in 1 .. 8, pressed \in BOOLEAN :
          /\ pad' = set_button(pad, Button[i], pressed)
          /\ last' = [op |-> "Controller::set_button", res |-> "Ok",
                      button |-> Button[i], pressed |-> pressed]
    /\ hist' = [calls |-> hist.calls + 1,
                latch |-> IF hist.latch.some
                          THEN [hist.latch EXCEPT !.changed = TRUE]
                          ELSE hist.latch]
    /\ UNCHANGED <<cpu, emu, ppu, apu, cart, audio>>

PadWrite ==
    /\ \E value \in StrobeValues :
          /\ pad' = Controller_write(pad, value)
          /\ last' = [op |-> "Controller::write", res |-> "Ok", value |-> value]
          /\ hist' = [hist EXCEPT !.latch =
                         IF value % 2 = 1 THEN NoLatch
                         ELSE IF pad.strobe
                         THEN [some |-> TRUE, down |-> Down(pad), reads |-> 0,
                               changed |-> FALSE]
                         ELSE @]
    /\ UNCHANGED <<cpu, emu, ppu, apu, cart, audio>>

PadRead ==
    /\ LET r == Controller_read(pad)
       IN  /\ pad' = r.pad
           /\ last' = [op |-> "Controller::read", res |-> "Ok", ret |-> r.ret]
    /\ hist' = [hist EXCEPT !.latch =
                   IF @.some /\ @.reads < 9 THEN [@ EXCEPT !.reads = @ + 1] ELSE @]
    /\ UNCHANGED <<cpu, emu, ppu, apu, cart, audio>>

NextPad == PadSetButton \/ PadWrite \/ PadRead

SpecPad == InitPad /\ [][NextPad]_vars

\* a read made after a high-to-low strobe, the strobe low since
LatchedRead == last.op = "Controller::read" /\ hist.latch.some

Bit(pressed) == IF pressed THEN 1 ELSE 0

\* C21: with no button set since the strobe went from high to low, read
\* number k = 1..8 after it returns 1 if button k of A, B, Select, Start, Up,
\* Down, Left, Right is down and 0 if not, and every later read returns 1.
C21_ReadOrder ==
    (LatchedRead /\ ~hist.latch.changed) =>
        last.ret = IF hist.latch.reads <= 8
                   THEN Bit(Down(pad)[hist.latch.reads])
                   ELSE 1

\* the eighth read returns Right, down, with A up
C21_Witness ==
    /\ LatchedRead
    /\ ~hist.latch.changed
    /\ hist.latch.reads = 8
    /\ pad.right /\ ~pad.a /\ ~pad.left
    /\ last.ret = 1

\* C22: read number k = 1..8 after the strobe went from high to low returns
\* the state button k had at that write, whatever set_button did since.
C22_LatchFreezes ==
    (LatchedRead /\ hist.latch.reads <= 8) =>
        last.ret = Bit(hist.latch.down[hist.latch.reads])


-----------------------------------------------------------------------------
(* The APU in time: Apu::step called cycle after cycle from Apu::new, with  *)
(* a register written or the status read at a few chosen cycles.  The       *)
(* history counts the steps since the last write of 0x4017 and holds the    *)
(* frame-IRQ flag as the specification describes it: set by step 3 of the   *)
(* 4-step sequence with the inhibit bit clear, cleared by a read of 0x4015. *)

MaxApuCycles == 29828

MaxApuWrites == 2

ApuAccessCycles ==
    {0, FRAME_PERIOD + 2543, 4 * FRAME_PERIOD}

ApuTimedWrites ==
    {<<\h4001, \h89>>, <<\h4003, \h08>>, <<\h4017, \h00>>, <<\h4017, \h40>>,
     <<\h4017, \h80>>}

InitApu ==
    /\ cpu = Cpu_new(None)
    /\ emu = [cpu_running |-> TRUE]
    /\ ppu = Ppu_new
    /\ apu = Apu_new
    /\ cart = NoCart
    /\ pad = Controller_new
    /\ audio = NoAudio
    /\ last = NoLast
    /\ hist = [calls |-> 0, since |-> 0, due |-> FALSE]

ApuStep ==
    /\ last.res # "panic"
    /\ apu.cycle < MaxApuCycles
    /\ LET r == Apu_step(apu)
       IN  \E res \in (IF r.overflow THEN {"Ok", "panic"} ELSE {"Ok"}) :
              /\ apu' = IF res = "Ok" THEN r.apu ELSE apu
              /\ last' = [op |-> "Apu::step", res |-> res, pre |-> apu]
              /\ hist' = IF res # "Ok" THEN hist
                         ELSE [hist EXCEPT
                                 !.since = @ + 1,
                                 !.due = @ \/ (/\ r.apu.cycle % FRAME_PERIOD = 0
                                               /\ apu.frame_sequence = 3
                                               /\ ~apu.five_step_mode
                                               /\ ~apu.interrupt_inhibit)]
    /\ UNCHANGED <<pad, audio, cart, cpu, emu, ppu>>

ApuWrite ==
    /\ last.res # "panic"
    /\ hist.calls < MaxApuWrites
    /\ apu.cycle \in ApuAccessCycles
    /\ \E w \in ApuTimedWrites :
          LET r == Apu_write_register(apu, w[1], w[2])
          IN  /\ apu' = r.apu
              /\ last' = [op |-> "Apu::write_register", res |-> r.res,
                          pre |-> apu, address |-> w[1], value |-> w[2]]
              /\ hist' = [hist EXCEPT !.calls = @ + 1,
                                      !.since = IF w[1] = \h4017 THEN 0 ELSE @]
    /\ UNCHANGED <<pad, audio, cart, cpu, emu, ppu>>

ApuRead ==
    /\ last.res # "panic"
    /\ apu.cycle \in ApuAccessCycles
    /\ LET r == Apu_read_register(apu, \h4015)
       IN  last' = [op |-> "Apu::read_register", res |-> r.res, pre |-> apu,
                    address |-> \h4015, ret |-> r.value, due |-> hist.due]
    /\ hist' = [hist EXCEPT !.due = FALSE]
    /\ UNCHANGED <<pad, audio, cart, cpu, emu, ppu, apu>>

NextApu == ApuStep \/ ApuWrite \/ ApuRead

SpecApu == InitApu /\ [][NextApu]_vars

\* the ticks as the specification describes them: a quarter-frame tick clocks
\* the envelopes and the linear counter, a half-frame tick the length
\* counters and the sweep units
Tick(a, quarter, half) ==
    LET q == IF quarter THEN Apu_step_envelope(a) ELSE a
    IN  IF half
        THEN [Apu_step_length_counter(q) EXCEPT
                !.pulse1 = PulseChannel_step_sweep(@),
                !.pulse2 = PulseChannel_step_sweep(@)]
        ELSE q

Steps(five) == IF five THEN 5 ELSE 4

Quarter(five, s) == IF five THEN s \in {0, 1, 2, 4} ELSE s \in {0, 1, 2, 3}

Half(five, s) == IF five THEN s \in {1, 4} ELSE s \in {1, 3}

\* a call of Apu::step that reached the frame sequencer
SequencerStep ==
    /\ last.op = "Apu::step"
    /\ last.res = "Ok"
    /\ apu.cycle % FRAME_PERIOD = 0

\* C23: a frame-sequencer step at index s goes on to index s + 1 modulo 4
\* (4-step mode) or 5 (5-step mode) and clocks the envelopes and the linear
\* counter on steps 0,1,2,3 (0,1,2,4 in 5-step mode) and the length counters
\* and the sweep units on steps 1 and 3 (1 and 4), nothing else.
C23_FrameSequencer ==
    (SequencerStep /\ last.pre.frame_sequence < Steps(last.pre.five_step_mode)) =>
        LET five == last.pre.five_step_mode
            s == last.pre.frame_sequence
            c == StepChannels([last.pre EXCEPT !.cycle = @ + 1]).apu
        IN  apu = [Tick(c, Quarter(five, s), Half(five, s)) EXCEPT
                     !.frame_sequence = (s + 1) % Steps(five)]

\* C24: a write of 0x4017 leaves the frame sequencer at step 0 and restarts
\* its divider (the following sequencer steps come a whole number of frame
\* periods after the write), and with bit 7 of the value set it issues one
\* quarter-frame and one half-frame tick at once, none otherwise.
C24_FrameCounterWrite ==
    /\ (last.op = "Apu::write_register" /\ last.address = \h4017) =>
           LET mode == get_bit(last.value, 7)
           IN  apu = [Tick(last.pre, mode, mode) EXCEPT
                        !.frame_sequence = 0,
                        !.interrupt_inhibit = get_bit(last.value, 6),
                        !.five_step_mode = mode]
    /\ SequencerStep => hist.since % FRAME_PERIOD = 0

\* C25: a read of 0x4015 reports in bit 6 the frame-IRQ flag, which step 3 of
\* the 4-step sequence sets when the inhibit bit is clear, which nothing
\* else sets, and which stays set until such a read.
C25_FrameIrq ==
    (last.op = "Apu::read_register" /\ last.address = \h4015) =>
        get_bit(last.ret, 6) = last.due


-----------------------------------------------------------------------------
(* The APU's registers: a few register writes, steps and resets in any      *)
(* order from Apu::new.  A write of 0x4017 with bit 7 set is the half-frame *)
(* tick that needs no 7457 steps.                                           *)

MaxApuOps == 4

ApuRegWrites ==
    {<<\h4000, \h20>>, <<\h4003, \h18>>, <<\h4007, \h08>>, <<\h4008, \h80>>,
     <<\h400B, \h18>>, <<\h400C, \h20>>, <<\h400F, \h18>>, <<\h4015, \h00>>,
     <<\h4017, \h00>>, <<\h4017, \h80>>, <<\h4014, \h00>>}

ApuRegsWrite ==
    /\ last.res # "panic"
    /\ hist.calls < MaxApuOps
    /\ \E w \in ApuRegWrites :
          LET r == Apu_write_register(apu, w[1], w[2])
          IN  /\ apu' = r.apu
              /\ last' = [op |-> "Apu::write_register", res |-> r.res,
                          pre |-> apu, address |-> w[1], value |-> w[2]]
    /\ hist' = [hist EXCEPT !.calls = @ + 1]
    /\ UNCHANGED <<pad, audio, cart, cpu, emu, ppu>>

ApuRegsStep ==
    /\ last.res # "panic"
    /\ hist.calls < MaxApuOps
    /\ LET r == Apu_step(apu)
       IN  \E res \in (IF r.overflow THEN {"Ok", "panic"} ELSE {"Ok"}) :
              /\ apu' = IF res = "Ok" THEN r.apu ELSE apu
              /\ last' = [op |-> "Apu::step", res |-> res, pre |-> apu]
    /\ hist' = [hist EXCEPT !.calls = @ + 1]
    /\ UNCHANGED <<pad, audio, cart, cpu, emu, ppu>>

ApuRegsReset ==
    /\ last.res # "panic"
    /\ hist.calls < MaxApuOps
    /\ apu' = Apu_reset(apu)
    /\ last' = [op |-> "Apu::reset", res |-> "Ok", pre |-> apu]
    /\ hist' = [hist EXCEPT !.calls = @ + 1]
    /\ UNCHANGED <<pad, audio, cart, cpu, emu, ppu>>

NextApuRegs == ApuRegsWrite \/ ApuRegsStep \/ ApuRegsReset

SpecApuRegs == InitApu /\ [][NextApuRegs]_vars

\* the length counters of pulse 1, pulse 2, triangle and noise
LengthCounters(a) ==
    <<a.pulse1.length_counter, a.pulse2.length_counter,
      a.triangle.length_counter, a.noise.length_counter>>

\* their halt flags
Halts(a) ==
    <<a.pulse1.envelope_loop, a.pulse2.envelope_loop,
      a.triangle.linear_counter_control, a.noise.envelope_loop>>

\* the last call issued a half-frame tick
HalfFrameTick ==
    \/ /\ last.op = "Apu::write_register"
       /\ last.address = \h4017
       /\ get_bit(last.value, 7)
    \/ /\ SequencerStep
       /\ Half(last.pre.five_step_mode, last.pre.frame_sequence)

\* the last call loaded or cleared length counters
LengthLoad ==
    \/ last.op \in {"new", "Apu::reset"}
    \/ /\ last.op = "Apu::write_register"
       /\ last.address \in {\h4003, \h4007, \h400B, \h400F, \h4015}

\* C26: apart from loads and clears, a length counter changes only by a
\* half-frame tick, which takes exactly 1 from it and only when it is not
\* zero and the channel's halt flag is clear; it stays within 0..255.
C26_LengthCounter ==
    \A i \in 1..4 :
       /\ LengthCounters(apu)[i] \in 0..255
       /\ (~LengthLoad /\ LengthCounters(apu)[i] # LengthCounters(last.pre)[i]) =>
              /\ HalfFrameTick
              /\ LengthCounters(apu)[i] = LengthCounters(last.pre)[i] - 1
              /\ LengthCounters(last.pre)[i] > 0
              /\ ~Halts(last.pre)[i]

C26_Witness ==
    /\ HalfFrameTick
    /\ LengthCounters(last.pre)[1] = 2
    /\ LengthCounters(apu)[1] = 1
    /\ Halts(last.pre)[3]
    /\ LengthCounters(last.pre)[3] = 2
    /\ LengthCounters(apu)[3] = 2


-----------------------------------------------------------------------------
(* The noise channel on its own: timer steps, register writes and resets    *)
(* in any order and number from NoiseChannel::new.                           *)

NoiseWrites ==
    {<<\h400E, \h00>>, <<\h400E, \h80>>, <<\h400D, \h00>>}

InitNoise ==
    /\ cpu = Cpu_new(None)
    /\ emu = [cpu_running |-> TRUE]
    /\ ppu = Ppu_new
    /\ apu = Apu_new
    /\ cart = NoCart
    /\ pad = Controller_new
    /\ audio = NoAudio
    /\ last = NoLast
    /\ hist = [calls |-> 0]

NoiseStep ==
    /\ apu' = [apu EXCEPT !.noise = NoiseChannel_step(@)]
    /\ last' = [op |-> "NoiseChannel::step", res |-> "Ok"]
    /\ UNCHANGED <<pad, audio, cart, cpu, emu, ppu, hist>>

NoiseWrite ==
    /\ \E w \in NoiseWrites :
          LET r == NoiseChannel_write_register(apu.noise, w[1], w[2])
          IN  /\ apu' = [apu EXCEPT !.noise = r.ch]
              /\ last' = [op |-> "NoiseChannel::write_register", res |-> r.res,
                          address |-> w[1], value |-> w[2]]
    /\ UNCHANGED <<pad, audio, cart, cpu, emu, ppu, hist>>

NoiseReset ==
    /\ apu' = [apu EXCEPT !.noise = NoiseChannel_reset(@)]
    /\ last' = [op |-> "NoiseChannel::reset", res |-> "Ok"]
    /\ UNCHANGED <<pad, audio, cart, cpu, emu, ppu, hist>>

NextNoise == NoiseStep \/ NoiseWrite \/ NoiseReset

SpecNoise == InitNoise /\ [][NextNoise]_vars

\* C27: the noise channel's shift register is never zero and has no bit
\* above bit 14 set, whatever timer steps, mode changes, register writes and
\* resets came before.
C27_ShiftRegister == apu.noise.shift_register \in 1..32767

C27_Witness ==
    /\ last.op = "NoiseChannel::step"
    /\ apu.noise.mode
    /\ apu.noise.timer_counter = 4
    /\ apu.noise.shift_register = 32767


-----------------------------------------------------------------------------
(* f32, as far as the mixer needs it: a value is mant * 2^exp with mant = 0 *)
(* or 2^23 <= mant < 2^24, and every operation rounds its exact result to   *)
(* the nearest such value, ties to the even mantissa.                       *)

F32Zero == [mant |-> 0, exp |-> 0]

RECURSIVE BitLength(_)
BitLength(n) == IF n = 0 THEN 0 ELSE 1 + BitLength(n \div 2)

\* n * 2^exp rounded to f32; `sticky` says that the exact value is a little
\* above n * 2^exp (by less than 2^exp)
F32Round(n, exp, sticky) ==
    LET over == BitLength(n) - 24
    IN  IF n = 0 THEN F32Zero
        ELSE IF over <= 0 THEN [mant |-> n * 2 ^ (-over), exp |-> exp + over]
        ELSE LET q == n \div 2 ^ over
                 r == n % 2 ^ over
                 half == 2 ^ (over - 1)
                 up == r > half \/ (r = half /\ (sticky \/ q % 2 = 1))
                 m == IF up THEN q + 1 ELSE q
             IN  IF m = 16777216 THEN [mant |-> 8388608, exp |-> exp + over + 1]
                 ELSE [mant |-> m, exp |-> exp + over]

\* x + y
F32Add(x, y) ==
    IF x.mant = 0 THEN y
    ELSE IF y.mant = 0 THEN x
    ELSE LET hi == IF x.exp >= y.exp THEN x ELSE y
             lo == IF x.exp >= y.exp THEN y ELSE x
             d == hi.exp - lo.exp
         IN  IF d <= 6
             THEN F32Round(hi.mant * 2 ^ d + lo.mant, lo.exp, FALSE)
             ELSE IF d > 30 + 6
             THEN hi
             ELSE F32Round(hi.mant * 64 + lo.mant \div 2 ^ (d - 6), hi.exp - 6,
                           lo.mant % 2 ^ (d - 6) # 0)

\* x * k for a small whole number k
F32Mul(x, k) == F32Round(x.mant * k, x.exp, FALSE)

RECURSIVE QuotientShift(_, _, _)
QuotientShift(v, k, s) ==
    IF v * 2 ^ s >= k * 8388608 THEN s ELSE QuotientShift(v, k, s + 1)

\* v as f32 / k as f32, for whole numbers 0 <= v <= k < 128
F32Div(v, k) ==
    IF v = 0 THEN F32Zero
    ELSE LET s == QuotientShift(v, k, 0)
             q == (v * 2 ^ s) \div k
             r == (v * 2 ^ s) % k
             m == IF 2 * r > k \/ (2 * r = k /\ q % 2 = 1) THEN q + 1 ELSE q
         IN  IF m = 16777216 THEN [mant |-> 8388608, exp |-> 1 - s]
             ELSE [mant |-> m, exp |-> -s]

\* x as usize
F32Trunc(x) ==
    IF x.exp >= 0 THEN x.mant * 2 ^ x.exp
    ELSE IF x.exp < -30 THEN 0
    ELSE x.mant \div 2 ^ (-x.exp)


-----------------------------------------------------------------------------
(* The channels' samples and the mixer.  A channel's level is the whole     *)
(* number that its get_sample divides by 15.0 (127.0 for the DMC).  The     *)
(* mixer's tables are constants of Mixer::new, strictly increasing in the   *)
(* index, so a mixed sample pulse_table[i] + tnd_table[j] is held as the    *)
(* pair of its indices.                                                     *)

duty_table ==
    <<<<0, 1, 0, 0, 0, 0, 0, 0>>, <<0, 1, 1, 0, 0, 0, 0, 0>>,
      <<0, 1, 1, 1, 1, 0, 0, 0>>, <<1, 0, 0, 1, 1, 1, 1, 1>>>>

triangle_table ==
    <<15, 14, 13, 12, 11, 10, 9, 8, 7, 6, 5, 4, 3, 2, 1, 0,
      0, 1, 2, 3, 4, 5, 6, 7, 8, 9, 10, 11, 12, 13, 14, 15>>

PulseChannel_level(p) ==
    IF ~p.enabled \/ p.length_counter = 0 \/ p.timer_period < 8 THEN 0
    ELSE IF duty_table[p.duty_cycle + 1][p.sequence_counter + 1] = 0 THEN 0
    ELSE IF p.envelope_enabled THEN p.envelope_counter
    ELSE p.envelope_volume

PulseChannel_get_sample(p) == F32Div(PulseChannel_level(p), 15)

TriangleChannel_level(t) ==
    IF ~t.enabled \/ t.length_counter = 0 \/ t.linear_counter = 0 THEN 0
    ELSE triangle_table[t.sequence_counter + 1]

TriangleChannel_get_sample(t) == F32Div(TriangleChannel_level(t), 15)

NoiseChannel_level(n) ==
    IF ~n.enabled \/ n.length_counter = 0 \/ get_bit(n.shift_register, 0) THEN 0
    ELSE IF n.envelope_enabled THEN n.envelope_counter
    ELSE n.envelope_volume

NoiseChannel_get_sample(n) == F32Div(NoiseChannel_level(n), 15)

DmcChannel_level(d) == IF ~d.enabled THEN 0 ELSE d.output_level

DmcChannel_get_sample(d) == F32Div(DmcChannel_level(d), 127)

Clamp(index, top) == IF index < top + 1 THEN index ELSE top

Mixer_mix(pulse1, pulse2, triangle, noise, dmc) ==
    [pulse_index |->
         Clamp(F32Trunc(F32Mul(F32Add(pulse1, pulse2), 15)), 30),
     tnd_index |->
         Clamp(F32Trunc(F32Mul(F32Add(F32Add(F32Mul(triangle, 3),
                                             F32Mul(noise, 2)),
                                      dmc), 15)), 202)]

\* the five samples that Apu::get_sample hands to the mixer
Apu_samples(a) ==
    <<PulseChannel_get_sample(a.pulse1), PulseChannel_get_sample(a.pulse2),
      TriangleChannel_get_sample(a.triangle), NoiseChannel_get_sample(a.noise),
      DmcChannel_get_sample(a.dmc)>>

Apu_get_sample(a) ==
    LET s == Apu_samples(a)
    IN  Mixer_mix(s[1], s[2], s[3], s[4], s[5])


-----------------------------------------------------------------------------
(* Sampling.  The initial states are Apu::new and the states that register  *)
(* writes and steps of the APU reach from it: every channel enabled, the    *)
(* pulses and the noise channel at a constant volume with their length      *)
(* counters loaded and halted, the triangle's linear counter loaded by a    *)
(* quarter-frame tick, the DMC level loaded directly, then a few calls of   *)
(* Apu::step (in a build whose u8 arithmetic wraps), which walk the         *)
(* triangle down its table and shift the noise register.  From there the    *)
(* status register is written and the sample taken.                         *)

MaxMixOps == 2

MixPulse1 == {0, 15}

MixPulse2 == {0, 15}

MixNoise == {0, 6, 15}

MixDmc == {0, 1, 64, 127}

MixSteps == {0, 2, 4, 15}

MixStatus == {\h00, \h0F, \h10, \h1F}

\* constant volume v, length counter halted, duty 3 before the first step
\* of the sequencer and duty 2 after it (the phase that sounds)
SetupWrites(p1, p2, n, d, k) ==
    LET duty == IF k = 0 THEN \hF0 ELSE \hB0
    IN  <<<<\h4015, \h1F>>,
          <<\h4000, duty + p1>>, <<\h4002, \h08>>, <<\h4003, \h08>>,
          <<\h4004, duty + p2>>, <<\h4006, \h08>>, <<\h4007, \h08>>,
          <<\h4008, \hFF>>, <<\h400B, \h08>>,
          <<\h400C, \h30 + n>>, <<\h400F, \h08>>,
          <<\h4011, d>>, <<\h4017, \h80>>>>

\* (a.cycle is never negative: the test has the state so far evaluated
\* before the next call is taken up)
RECURSIVE WriteAll(_, _)
WriteAll(a, writes) ==
    IF writes = <<>> \/ a.cycle < 0 THEN a
    ELSE WriteAll(Apu_write_register(a, Head(writes)[1], Head(writes)[2]).apu,
                  Tail(writes))

RECURSIVE StepTimes(_, _)
StepTimes(a, k) ==
    IF k = 0 \/ a.cycle < 0 THEN a ELSE StepTimes(Apu_step(a).apu, k - 1)

Setup(p1, p2, n, d, k) == StepTimes(WriteAll(Apu_new, SetupWrites(p1, p2, n, d, k)), k)

InitMixer ==
    /\ cpu = Cpu_new(None)
    /\ emu = [cpu_running |-> TRUE]
    /\ ppu = Ppu_new
    /\ apu \in {Apu_new} \cup
               {Setup(p1, p2, n, d, k) :
                    p1 \in MixPulse1, p2 \in MixPulse2, n \in MixNoise,
                    d \in MixDmc, k \in MixSteps}
    /\ cart = NoCart
    /\ pad = Controller_new
    /\ audio = NoAudio
    /\ last = NoLast
    /\ hist = [calls |-> 0]

ApuGetSample ==
    /\ last' = [op |-> "Apu::get_sample", res |-> "Ok",
                samples |-> Apu_samples(apu), ret |-> Apu_get_sample(apu)]
    /\ UNCHANGED <<pad, audio, cart, cpu, emu, ppu, apu, hist>>

ApuSetStatus ==
    /\ hist.calls < MaxMixOps
    /\ \E value \in MixStatus :
          /\ apu' = Apu_write_register(apu, \h4015, value).apu
          /\ last' = [op |-> "Apu::write_register", res |-> "Ok",
                      address |-> \h4015, value |-> value]
    /\ hist' = [hist EXCEPT !.calls = @ + 1]
    /\ UNCHANGED <<pad, audio, cart, cpu, emu, ppu>>

NextMixer == ApuGetSample \/ ApuSetStatus

SpecMixer == InitMixer /\ [][NextMixer]_vars

\* C28: the sample that the DMC hands to the mixer is its output level (over
\* 127.0) whether bit 4 of 0x4015 was last written set or clear.
C28_DmcRegardlessOfEnable ==
    last.op = "Apu::get_sample" =>
        last.samples[5] = F32Div(apu.dmc.output_level, 127)

\* C29: with the channels at the levels pulse1, pulse2, triangle, noise (0 to
\* 15) and dmc (0 to 127), the mixed sample is
\* pulse_table[pulse1 + pulse2] + tnd_table[3 * triangle + 2 * noise + dmc].
C29_Mix ==
    last.op = "Apu::get_sample" =>
        last.ret =
            [pulse_index |-> PulseChannel_level(apu.pulse1)
                             + PulseChannel_level(apu.pulse2),
             tnd_index |-> 3 * TriangleChannel_level(apu.triangle)
                           + 2 * NoiseChannel_level(apu.noise)
                           + DmcChannel_level(apu.dmc)]

\* the mixer's pulse half alone does as C29 says
C29_PulseIndex ==
    last.op = "Apu::get_sample" =>
        last.ret.pulse_index = PulseChannel_level(apu.pulse1)
                               + PulseChannel_level(apu.pulse2)


-----------------------------------------------------------------------------
(* The audio buffer of an opened audio device: samples are pushed by        *)
(* add_sample and drained by pop and by the device's callback.  A sample is *)
(* a small whole number other than 0, which is silence.  The history holds  *)
(* the samples pushed and not yet popped, cut to the newest `capacity`.     *)

MaxAudioOps == 5

AudioCapacities == {0, 1, 2, 3}

AudioSamples == {1, 2, 3}

OutLengths == {1, 2}

AudioBuffer_new(capacity) ==
    [some |-> TRUE, buffer |-> <<>>, capacity |-> capacity]

AudioBuffer_push(b, sample) ==
    [b EXCEPT !.buffer =
        Append(IF Len(@) >= b.capacity /\ Len(@) > 0 THEN Tail(@) ELSE @,
               sample)]

AudioBuffer_pop(b) ==
    IF b.buffer = <<>> THEN [buf |-> b, ret |-> None]
    ELSE [buf |-> [b EXCEPT !.buffer = Tail(@)], ret |-> Some(Head(b.buffer))]

\* NesAudioCallback::callback on an `out` of n samples
RECURSIVE callback(_, _)
callback(b, n) ==
    IF n = 0 THEN [buf |-> b, out |-> <<>>]
    ELSE LET p == AudioBuffer_pop(b)
             rest == callback(p.buf, n - 1)
         IN  [buf |-> rest.buf,
              out |-> <<IF p.ret.some THEN p.ret.value ELSE 0>> \o rest.out]

\* the newest n elements of a sequence
Newest(s, n) == IF Len(s) <= n THEN s ELSE SubSeq(s, Len(s) - n + 1, Len(s))

InitAudio ==
    /\ cpu = Cpu_new(None)
    /\ emu = [cpu_running |-> TRUE]
    /\ ppu = Ppu_new
    /\ apu = Apu_new
    /\ cart = NoCart
    /\ pad = Controller_new
    /\ audio \in {AudioBuffer_new(c) : c \in AudioCapacities}
    /\ last = NoLast
    /\ hist = [calls |-> 0, held |-> <<>>]

AudioPush ==
    /\ hist.calls < MaxAudioOps
    /\ \E sample \in AudioSamples :
          /\ audio' = AudioBuffer_push(audio, sample)
          /\ last' = [op |-> "AudioBuffer::push", res |-> "Ok", sample |-> sample]
          /\ hist' = [calls |-> hist.calls + 1,
                      held |-> Newest(Append(hist.held, sample), audio.capacity)]
    /\ UNCHANGED <<pad, cart, cpu, emu, ppu, apu>>

AudioPop ==
    /\ hist.calls < MaxAudioOps
    /\ LET p == AudioBuffer_pop(audio)
       IN  /\ audio' = p.buf
           /\ last' = [op |-> "AudioBuffer::pop", res |-> "Ok", ret |-> p.ret,
                       oldest |-> IF hist.held = <<>> THEN None
                                  ELSE Some(Head(hist.held))]
    /\ hist' = [calls |-> hist.calls + 1,
                held |-> IF hist.held = <<>> THEN <<>> ELSE Tail(hist.held)]
    /\ UNCHANGED <<pad, cart, cpu, emu, ppu, apu>>

AudioCallback ==
    /\ hist.calls < MaxAudioOps
    /\ \E n \in OutLengths :
          LET c == callback(audio, n)
              k == IF Len(hist.held) < n THEN Len(hist.held) ELSE n
          IN  /\ audio' = c.buf
              /\ last' = [op |-> "NesAudioCallback::callback", res |-> "Ok",
                          out |-> c.out,
                          oldest |-> SubSeq(hist.held, 1, k)
                                     \o [i \in 1..(n - k) |-> 0]]
              /\ hist' = [calls |-> hist.calls + 1,
                          held |-> SubSeq(hist.held, k + 1, Len(hist.held))]
    /\ UNCHANGED <<pad, cart, cpu, emu, ppu, apu>>

NextAudio == AudioPush \/ AudioPop \/ AudioCallback

SpecAudio == InitAudio /\ [][NextAudio]_vars

\* the buffer is as the history says, and the last call returned the oldest
BufferAsPushed ==
    /\ Len(audio.buffer) <= audio.capacity
    /\ audio.buffer = hist.held
    /\ last.op = "AudioBuffer::pop" => last.ret = last.oldest
    /\ last.op = "NesAudioCallback::callback" => last.out = last.oldest

\* C30: a buffer of capacity C holds at most C samples, the most recently
\* pushed ones that were not popped, in the order of the pushes, and a pop
\* (or the callback) returns the oldest of them.
C30_BoundedFifo == BufferAsPushed

\* the same for the capacities from 1 up
BoundedFifoFromOne == audio.capacity >= 1 => BufferAsPushed

-----------------------------------------------------------------------------
(* Programs at a chosen origin.  A cartridge as Rom builds it, with the     *)
(* program at `origin` (0x8000 or above) and the reset vector naming it.    *)

RomAt(origin, program) ==
    [len |-> \h8000,
     prg_rom |-> Image(origin - \h8000, program)
                 @@ Image(NmiHandler - \h8000, <<\h40>>)
                 @@ Image(IrqHandler - \h8000, <<\h40>>)
                 @@ Image(\h7FFA, <<NmiHandler % 256, NmiHandler \div 256,
                                    origin % 256, origin \div 256,
                                    IrqHandler % 256, IrqHandler \div 256>>)]

-----------------------------------------------------------------------------
(* Branches.  A branch on Z or N at the reset address or behind LDA #$00,   *)
(* placed around a page boundary and in the middle of a page.  The         *)
(* programs of this and the next sections are run by SpecPrograms, below.   *)

BranchOrigins == {\h8000, \h8080, \h80FB, \h80FC, \h80FD, \h80FE}

BranchOffsets == {\h00, \h01, \h04, \h7F, \h80, \hFC, \hFF}

\* BPL, BMI, BNE, BEQ
BranchOpcodes == {\h10, \h30, \hD0, \hF0}

BranchRoms ==
    {RomAt(origin, pre \o <<op, d>>) :
        origin \in BranchOrigins, pre \in {<<>>, <<\hA9, \h00>>},
        op \in BranchOpcodes, d \in BranchOffsets}

BranchArms == {"bpl", "bmi", "bvc", "bvs", "bcc", "bcs", "bne", "beq"}

\* whether the branch of this arm is taken under status byte p
BranchCondition(p, arm) ==
    LET on(flag) == (p \div flag) % 2 = 1
    IN  CASE arm = "bpl" -> ~on(StatusFlag.Negative)
          [] arm = "bmi" -> on(StatusFlag.Negative)
          [] arm = "bvc" -> ~on(StatusFlag.Overflow)
          [] arm = "bvs" -> on(StatusFlag.Overflow)
          [] arm = "bcc" -> ~on(StatusFlag.Carry)
          [] arm = "bcs" -> on(StatusFlag.Carry)
          [] arm = "bne" -> ~on(StatusFlag.Zero)
          [] arm = "beq" -> on(StatusFlag.Zero)

\* a branch instruction has just run without overflowing the program counter
BranchRan ==
    /\ last.op = "step"
    /\ last.res = "Ok(true)"
    /\ last.arm \in BranchArms
    /\ ~cpu.panicked

\* the step's branch at a with offset d: where it ends and what it costs,
\* the page penalty given by `crossed(a, target)`
BranchAsTold(crossed(_, _)) ==
    LET a      == last.pre.pc
        d      == SignExtend(read_byte(last.pre.memory, Wrap16(a + 1)))
        base   == get_instruction(last.opcode).cycles
        target == Wrap16(a + 2 + d)
    IN  IF BranchCondition(last.pre.p, last.arm)
        THEN /\ cpu.pc = target
             /\ cpu.cycles = last.pre.cycles + base + 1
                               + (IF crossed(a, target) THEN 1 ELSE 0)
        ELSE /\ cpu.pc = Wrap16(a + 2)
             /\ cpu.cycles = last.pre.cycles + base

\* C31: a branch at a with offset d that is not taken leaves PC = a + 2 and
\* costs the base cycles; taken, it leaves PC = a + 2 + d and costs one cycle
\* more, and a further one exactly when the target lies in another page than
\* the branch instruction
C31_BranchTiming ==
    BranchRan =>
        BranchAsTold(LAMBDA a, target : (a \div 256) # (target \div 256))

\* what branch() charges: the penalty compares the address of the operand
\* byte, a + 1, with a + 1 + d
BranchTimingOfOperand ==
    BranchRan =>
        BranchAsTold(LAMBDA a, target :
                        page_crossed(Wrap16(a + 1), Wrap16(target + 65535)))

-----------------------------------------------------------------------------
(* JMP (ptr). *)

\* LDA #$80; STA $30FF; LDA #$40; STA $3000; JMP ($30FF), and JMP ($0010)
\* behind LDA #$34; STA $10; STA $11
JumpRoms ==
    {RomAt(PROGRAM_ADDRESS,
           <<\hA9, \h80, \h8D, \hFF, \h30, \hA9, \h40, \h8D, \h00, \h30,
             \h6C, \hFF, \h30>>),
     RomAt(PROGRAM_ADDRESS,
           <<\hA9, \h34, \h85, \h10, \h85, \h11, \h6C, \h10, \h00>>)}

\* C32: JMP (ptr) sets PC to mem[ptr] | mem[(ptr & 0xFF00) | ((ptr + 1) & 0xFF)]
\* << 8, the high byte fetched from the pointer's own page
C32_JmpIndirect ==
    (/\ last.op = "step"
     /\ last.res = "Ok(true)"
     /\ last.opcode = \h6C
     /\ ~cpu.panicked)
    => LET mem == last.pre.memory
           a   == last.pre.pc
           ptr == read_byte(mem, Wrap16(a + 1))
                    + 256 * read_byte(mem, Wrap16(a + 2))
           hi  == (ptr \div 256) * 256 + ((ptr + 1) % 256)
       IN  cpu.pc = read_byte(mem, ptr) + 256 * read_byte(mem, hi)

-----------------------------------------------------------------------------
(* The stack.  push_stack and pull_stack on a Cpu whose SP is any byte, as  *)
(* JSR, RTS, RTI and the interrupts leave it.                               *)

MaxStackOps == 3

StackValues == {\h00, \h5A, \hFF}

InitStack ==
    /\ cpu \in {[Emulator_new(RtiRom) EXCEPT !.sp = sp] : sp \in Byte}
    /\ emu = [cpu_running |-> TRUE]
    /\ ppu = Ppu_new
    /\ apu = Apu_new
    /\ pad = Controller_new
    /\ audio = NoAudio
    /\ cart = NoCart
    /\ last = NoLast
    /\ hist = [calls |-> 0]

StackPush ==
    /\ hist.calls < MaxStackOps
    /\ \E value \in StackValues :
          /\ cpu' = push_stack(cpu, value)
          /\ last' = [op |-> "push", res |-> "Ok", value |-> value, pre |-> cpu]
    /\ hist' = [calls |-> hist.calls + 1]
    /\ UNCHANGED <<pad, audio, cart, emu, ppu, apu>>

StackPull ==
    /\ hist.calls < MaxStackOps
    /\ LET r == pull_stack(cpu)
       IN  /\ cpu' = r.c
           /\ last' = [op |-> "pull", res |-> "Ok", value |-> r.value, pre |-> cpu]
    /\ hist' = [calls |-> hist.calls + 1]
    /\ UNCHANGED <<pad, audio, cart, emu, ppu, apu>>

NextStack == StackPush \/ StackPull

SpecStack == InitStack /\ [][NextStack]_vars

\* the cells of the internal RAM whose content differs between two memories
Changed(before, after) ==
    {i \in (DOMAIN before.internal_ram) \cup (DOMAIN after.internal_ram) :
        Get(before.internal_ram, i) # Get(after.internal_ram, i)}

\* C33: for every SP a push stores at 0x0100 + SP and then decrements SP
\* modulo 256, a pull increments SP modulo 256 and then reads 0x0100 + SP;
\* nothing outside 0x0100-0x01FF is touched, and the push at SP = 0x00 and
\* the pull at SP = 0xFF wrap without a fault
C33_StackDiscipline ==
    LET pre == last.pre
    IN  /\ last.op = "push" =>
              /\ read_byte(cpu.memory, \h0100 + pre.sp) = last.value
              /\ Changed(pre.memory, cpu.memory) \subseteq {\h0100 + pre.sp}
              /\ [cpu.memory EXCEPT !.internal_ram = EmptyMap]
                   = [pre.memory EXCEPT !.internal_ram = EmptyMap]
              /\ cpu.sp = (pre.sp + 255) % 256
              /\ ~cpu.panicked
        /\ last.op = "pull" =>
              /\ cpu.sp = (pre.sp + 1) % 256
              /\ last.value = read_byte(pre.memory, \h0100 + cpu.sp)
              /\ cpu.memory = pre.memory
              /\ ~cpu.panicked

\* the byte pushed at SP = 0x00 went to 0x0100, and the pull at SP = 0xFF
\* brings it back
C33_Witness ==
    /\ last.op = "pull"
    /\ last.pre.sp = \hFF
    /\ cpu.sp = \h00
    /\ last.value = \h5A

-----------------------------------------------------------------------------
(* Zero and Negative after a write. *)

\* where the instruction the last step() fetched leaves its result: a
\* register, a memory cell ("M"), or nowhere that sets Z and N ("none");
\* the table lists the accumulator forms of the shifts as Implied
Destination ==
    LET m == Fetched.mnemonic
    IN  IF m \in {"ASL", "LSR", "ROL", "ROR"}
        THEN (IF Fetched.addressing_mode = "Implied" THEN "A" ELSE "M")
        ELSE IF m \in {"INC", "DEC"} THEN "M"
        ELSE IF m \in {"LDA", "ORA", "AND", "EOR", "ADC", "SBC", "TXA", "TYA", "PLA"}
        THEN "A"
        ELSE IF m \in {"LDX", "TAX", "INX", "DEX", "TSX"} THEN "X"
        ELSE IF m \in {"LDY", "TAY", "INY", "DEY"} THEN "Y"
        ELSE "none"

\* the value the destination holds after the step
WrittenValue ==
    CASE Destination = "A" -> cpu.a
      [] Destination = "X" -> cpu.x
      [] Destination = "Y" -> cpu.y
      [] Destination = "M" -> read_byte(cpu.memory, Operand)

\* a step that executed a writing instruction; a memory destination counts
\* when it is internal RAM, where the byte written can be read back
Wrote ==
    /\ last.op = "step"
    /\ last.res = "Ok(true)"
    /\ ~cpu.panicked
    /\ Destination # "none"
    /\ Destination = "M" => Operand <= \h1FFF

ZeroNegativeFollow ==
    /\ get_flag(cpu, StatusFlag.Zero) <=> WrittenValue = 0
    /\ get_flag(cpu, StatusFlag.Negative) <=> get_bit(WrittenValue, 7)

\* C34: after an instruction that writes A, X, Y or the memory destination
\* of INC, DEC, ASL, LSR, ROL or ROR, Z is set exactly when the value written
\* is 0 and N equals its bit 7
C34_ZeroNegative == Wrote => ZeroNegativeFollow

\* the same for the instructions that step() has a match arm for
ZeroNegativeOfArms == (Wrote /\ last.arm # "_") => ZeroNegativeFollow

-----------------------------------------------------------------------------
(* The frame sequencer's index across mode changes. *)

\* a write of 0x4017 that switched between the 4-step and the 5-step mode
ModeChanged ==
    /\ last.op = "Apu::write_register"
    /\ last.address = \h4017
    /\ last.pre.five_step_mode # apu.five_step_mode

\* C35: whatever steps and register writes came before, the frame
\* sequencer's step index is within 0..3 in 4-step mode and within 0..4 in
\* 5-step mode, and the step that follows a change of mode is step 0
C35_SequenceIndex ==
    /\ apu.frame_sequence \in 0..(Steps(apu.five_step_mode) - 1)
    /\ ModeChanged => apu.frame_sequence = 0

\* the index never leaves 0..4
SequenceIndexBelowFive == apu.frame_sequence \in 0..4

-----------------------------------------------------------------------------
(* Interrupts and RTI.  Every cartridge's NMI and IRQ handler is an RTI.    *)

\* RTI and BRK at the reset address; SEC, LDA #$80, BRK; and JSR $8005 to an
\* RTI, which pulls P = 0x22 (I clear, Z set) and PC = 0x0080 off the
\* return address
InterruptRoms ==
    {RomAt(PROGRAM_ADDRESS, program) :
        program \in {<<\h40>>, <<\h00>>, <<\h38, \hA9, \h80, \h00>>,
                     <<\h20, \h05, \h80, \hEA, \hEA, \h40>>}}

\* the call or step just made entered an interrupt handler: nmi(), irq()
\* with I clear, or a BRK instruction; last.pre is the interrupted Cpu
HandlerEntered ==
    /\ ~cpu.panicked
    /\ \/ last.op = "nmi"
       \/ last.op = "irq" /\ ~get_flag(last.pre, StatusFlag.InterruptDisable)
       \/ last.op = "step" /\ last.arm = "brk"

\* P without Break and Unused
OtherFlags(p) == p - (IF get_bit(p, 4) THEN 16 ELSE 0) - (IF get_bit(p, 5) THEN 32 ELSE 0)

\* this step executes an RTI
RtiStep ==
    /\ last'.op = "step"
    /\ last'.arm = "rti"
    /\ last'.res = "Ok(true)"
    /\ ~cpu'.panicked

\* C36: when an interrupt was serviced (nmi(), irq() with I clear, or BRK)
\* and the handler then executes RTI, execution resumes at the interrupted
\* PC (for BRK at the BRK address + 2), SP is what it was before the
\* interrupt, and so is every flag other than B and Unused
C36_InterruptReturn ==
    [][(HandlerEntered /\ RtiStep) =>
          /\ cpu'.pc = IF last.op = "step" THEN Wrap16(last.pre.pc + 2)
                       ELSE last.pre.pc
          /\ cpu'.sp = last.pre.sp
          /\ OtherFlags(cpu'.p) = OtherFlags(last.pre.p)]_vars

\* the IRQ handler's RTI has returned to 0x0080 with I clear and Z set, the
\* state irq() interrupted
C36_Witness ==
    /\ last.op = "step"
    /\ last.arm = "rti"
    /\ last.pre.pc = IrqHandler
    /\ cpu.pc = \h0080
    /\ cpu.sp = last.pre.sp + 3
    /\ get_flag(cpu, StatusFlag.Zero)
    /\ ~get_flag(cpu, StatusFlag.InterruptDisable)

-----------------------------------------------------------------------------
(* Instructions at the top of the address space. *)

\* LDY # at 0xFFFF, its operand at 0x0000; JSR and BPL at 0xFFFE, their
\* operands from 0xFFFF on.  The program overlies the IRQ vector, and its
\* bytes are chosen so that the vector still names an RTI (0xA020, 0x9010).
TopRoms ==
    {RomAt(\hFFFF, <<\hA0>>), RomAt(\hFFFE, <<\h20, \hA0>>),
     RomAt(\hFFFE, <<\h10, \h90>>)}

\* C37: whatever PC and memory hold, step() completes, with Ok or a
\* CpuError, without an arithmetic fault: the PC increments, operand fetches
\* and word reads wrap modulo 65536
C37_NoFault == last.op = "step" => (last.res # "panic" /\ ~cpu.panicked)

-----------------------------------------------------------------------------
(* PPUDATA accesses. *)

\* the last call read or wrote PPUDATA
DataAccess ==
    /\ last.op \in {"Ppu::read_register", "Ppu::write_register"}
    /\ last.address = \h2007

\* C38: after any sequence of register writes and reads every PPUDATA read
\* or write succeeds: the VRAM address it uses is within 0x0000-0x3FFF and,
\* in the palette mirror range 0x3F20-0x3FFF, resolves to a cell of the
\* 32-byte palette RAM, so that no access returns OutOfBounds or indexes
\* outside the palette
C38_DataAccessSucceeds ==
    DataAccess => (last.res = "Ok" /\ last.pre.v <= \h3FFF)

\* no PPUDATA access fails with OutOfBounds
DataAccessInBounds == DataAccess => last.res # "OutOfBounds"

-----------------------------------------------------------------------------
(* The DMC's bit counter. *)

\* C39: from every reachable state of the DMC, the one right after new() or
\* reset() included, DmcChannel::step completes without underflowing
\* bits_remaining, which stays within 0..8; the first Apu::step after
\* construction or reset does not fault
C39_DmcBitsRemaining ==
    /\ last.op = "Apu::step" => last.res # "panic"
    /\ apu.dmc.bits_remaining \in 0..8

-----------------------------------------------------------------------------
(* What a bus write reaches. *)

\* b is a itself or mirrors it: the same internal RAM cell under mask
\* 0x07FF, the same PPU register slot under mask 0x0007
Mirrors(a, b) ==
    \/ a = b
    \/ a <= \h1FFF /\ b <= \h1FFF /\ a % \h0800 = b % \h0800
    \/ a >= \h2000 /\ a <= \h3FFF /\ b >= \h2000 /\ b <= \h3FFF /\ a % 8 = b % 8

\* C40: a write to a changes what is read afterwards at a and at its
\* mirrors only; a write to 0x4018-0x401F does not change what is read at
\* 0x4000-0x4007, nor the other way round
C40_WriteReach ==
    last.op = "write_byte" =>
        \A b \in BusAddresses :
            read_byte(cpu.memory, b) # read_byte(last.pre.memory, b)
                => Mirrors(last.address, b)

\* the same, with 0x4018-0x401F taken for a second window onto the cells of
\* 0x4000-0x4007
WriteReachWithTestWindow ==
    last.op = "write_byte" =>
        \A b \in BusAddresses :
            read_byte(cpu.memory, b) # read_byte(last.pre.memory, b)
                => \/ Mirrors(last.address, b)
                   \/ /\ {last.address, b} \subseteq (\h4000 .. \h4007) \cup (\h4018 .. \h401F)
                      /\ last.address % 8 = b % 8

-----------------------------------------------------------------------------
(* The programs above, run by step(), irq(), nmi() and reset() in any order. *)

ProgramRoms == BranchRoms \cup JumpRoms \cup InterruptRoms \cup TopRoms

InitPrograms ==
    /\ cpu \in {Emulator_new(rom) : rom \in ProgramRoms}
    /\ emu = [cpu_running |-> TRUE]
    /\ ppu = Ppu_new
    /\ apu = Apu_new
    /\ pad = Controller_new
    /\ audio = NoAudio
    /\ cart = NoCart
    /\ last = NoLast
    /\ hist = NoHist

SpecPrograms == InitPrograms /\ [][Next]_vars

====
